---- MODULE Spec2Model ----
(***************************************************************************)
(* CloudHypervisorTerminal (src/cloud-hypervisor/cloud-hypervisor-terminal *)
(* .py): the session manager that launches one hypervisor process per      *)
(* terminal, keeps the sessions in user_terminals and tears them down in   *)
(* close_terminal.                                                         *)
(*                                                                         *)
(* Every handler is translated statement by statement into steps of the    *)
(* thread that runs it (the RPC service is registered with                 *)
(* run_in_executor, so handlers run on executor threads).  These          *)
(* specifications are given over the same steps:                           *)
(*   Spec        one call at a time (only MainThread serves calls); the    *)
(*               hypervisor processes still run and exit on their own      *)
(*               between the steps of a handler;                           *)
(*   SpecConc    every thread of Threads serves calls, steps interleave;   *)
(*   SpecBuffer  as Spec, started from a manager whose one session has     *)
(*               had 999 chunks of console output read, so that the cap    *)
(*               of the screen buffer is reached;                          *)
(*   SpecNet     the construction of the manager on a host without the     *)
(*               network device, setup_network statement by statement,     *)
(*               then calls served one at a time; the manager may be       *)
(*               constructed again on the host the earlier one left;       *)
(*   SpecWrite   as Spec, with callers whose writes carry data, so that    *)
(*               the consoles' input streams grow;                         *)
(*   SpecLive    Spec with the thread that serves a close never stopping   *)
(*               for good in the middle of it.                             *)
(***************************************************************************)
EXTENDS Integers, Sequences, FiniteSets, TLC

\* ---------------------------------------------------------------- bounds
\* create calls in one run (caps terminal_counter and the uuids drawn)
MaxCreates == 2
\* chunks the consoles deliver to reads in one run, and the length of a
\* console's stream that reads get to see
MaxChunks == 1
\* writes with data that one session's console receives
MaxWrites == 2
\* mishaps in one run: a failing os.makedirs, shutil.rmtree or PTY
\* allocation, a hypervisor that exits on its own (a create whose launch
\* fails is not counted: MaxCreates bounds those)
MaxFaults == 1

\* ------------------------------------------------------- program constants
\* len(terminal['screen_buffer']) > 1000  =>  keep the last 1000
ScreenBufferCap == 1000

\* ------------------------------------------------------------- value sets
Threads == {"t1", "t2"}
MainThread == "t1"

\* Python None as a user_id, and None as a descriptor
NoUser == "<None>"
NoFd == -1

\* identities under which sessions are created, and what a caller may pass
\* as user_id (an identity, or nothing)
Users == {"alice", "bob"}
Callers == Users \cup {NoUser}

\* f"terminal_{self.terminal_counter}"
TerminalId_OffByOne(counter) == <<"terminal_", counter + 1>>

TerminalId(counter) == <<"terminal_", counter>>

\* ids a caller may name: every id that can be issued and one that never is
TerminalIds == {TerminalId(n) : n \in 0..MaxCreates}

\* self.terminal_counter += 1
NextCounter_Stuck(counter) == counter

NextCounter(counter) == counter + 1

\* `if user_id:` with every user_id taken as falsy
Truthy_Never(user_id) == FALSE

\* `if user_id:` -- None and "" are both falsy
Truthy(user_id) == user_id \notin {NoUser, ""}

\* points at which create_terminal can raise inside its try block
FailSteps == {"config", "pretest", "script", "launch", "health"}

\* outcomes of the PTY allocation in _build_cloud_hypervisor_command
PtyOutcomes == {"pty", "openpty_failed", "ttyname_failed"}

\* a console that has received nothing
NoInput == [sent |-> <<>>, got |-> <<>>]

\* ------------------------------------------------------------ dict helpers
EmptyMap == [x \in {} |-> 0]

Put(f, k, v) == [x \in DOMAIN f \cup {k} |-> IF x = k THEN v ELSE f[x]]

Del(f, k) == [x \in DOMAIN f \ {k} |-> f[x]]

Min(S) == CHOOSE n \in S : \A m \in S : n <= m

\* the kernel hands out the lowest free descriptor number
LowestFree(used) == Min({n \in 0..Cardinality(used) : n \notin used})

VARIABLES
    terminal_counter,   \* self.terminal_counter
    user_terminals,     \* self.user_terminals: user_id -> terminal_id -> session
    user_order,         \* insertion order of the keys of self.user_terminals
    procs,              \* the hypervisor processes launched, by pid
    fds,                \* open PTY descriptors: number -> [uuid, end]
    dirs,               \* work directories on disk (by session uuid)
    uuids,              \* session uuids drawn so far (uuid4 is fresh)
    pc,                 \* where each executor thread is in its handler
    loc,                \* the locals of the handler each thread runs
    ret,                \* the result the last step returned (NoRet if none)
    issued,             \* ids formed by create calls, in order
    created,            \* sessions stored by successful creates
    closed,             \* sessions for which close returned success
    outputs,            \* per stored session (by uuid): the non-empty outputs
                        \* its reads have returned, in order
    console,            \* per stored session (by uuid): the bytes its console
                        \* has received (got), and the non-empty data of the
                        \* writes that returned success, in order (sent)
    faults,             \* failing calls and raising statements so far
    host,               \* the host's network: the device ch-tap0, forwarding,
                        \* the iptables rules appended
    setup               \* where setup_network is, and what it printed

vars == <<terminal_counter, user_terminals, user_order, procs, fds, dirs,
          uuids, pc, loc, ret, issued, created, closed, outputs, console,
          faults, host, setup>>

manager == <<terminal_counter, user_terminals, user_order>>
os == <<procs, fds, dirs, uuids>>
history == <<issued, created, closed, outputs, console>>
net == <<host, setup>>

\* a step in which n mishaps happen
Faulty(n) == /\ faults + n <= MaxFaults
             /\ faults' = faults + n

Cost(failing) == IF failing THEN 1 ELSE 0

NoRet == [op |-> "none"]

Ret(op, terminal_id, user_id, result, info) ==
    [op |-> op, terminal_id |-> terminal_id, user_id |-> user_id,
     result |-> result, info |-> info]

\* ------------------------------------------------- the VM configuration
\* a recipe is a dict; a key that is absent is not in its domain
Entry(key, values) == {EmptyMap} \cup {key :> v : v \in values}

\* recipes with and without each of the keys the configuration reads
\* (`recipe or {}` at line 131 turns a recipe of None into the empty dict)
Recipes ==
    {c @@ m @@ f : c \in Entry("cpus", {1, 4}),
                   m \in Entry("memory", {"256M", "1G"}),
                   f \in Entry("use_firmware", BOOLEAN)}

\* dict.get(key, default)
Get(d, key, default) == IF key \in DOMAIN d THEN d[key] ELSE default

\* lines 276-282 with the two branches exchanged
BootSource_Swapped(recipe) ==
    IF Get(recipe, "use_firmware", FALSE)
    THEN ("kernel" :> "bin/vmlinux-ch")
            @@ ("cmdline" :> "console=ttyS0 root=/dev/vda1 rw")
    ELSE "kernel" :> "bin/hypervisor-fw"

\* lines 276-282: the firmware image and no cmdline key, or the kernel image
\* and the fixed command line
BootSource(recipe) ==
    IF Get(recipe, "use_firmware", FALSE)
    THEN "kernel" :> "bin/hypervisor-fw"
    ELSE ("kernel" :> "bin/vmlinux-ch")
            @@ ("cmdline" :> "console=ttyS0 root=/dev/vda1 rw")

\* _prepare_vm_config, lines 263-287, and line 132 (session_uuid is added
\* by create_terminal)
PrepareVmConfig(recipe, session_uuid) ==
    BootSource(recipe)
       @@ [cpus |-> <<Get(recipe, "cpus", 2)>>,
           memory |-> <<Get(recipe, "memory", "512M")>>,
           disk |-> "bin/ubuntu-rootfs.img", console |-> "tty",
           serial |-> "tty", net |-> TRUE, session_uuid |-> session_uuid]

\* what random.randint delivers for the three free bytes of the MAC
\* address: the least and the greatest value of each range
RandomBytes == {<<0, 0, 0>>, <<127, 255, 255>>}

\* _generate_mac_address, lines 340-348: 02:00:00 and the three bytes drawn
MacAddress(drawn) == <<2, 0, 0>> \o drawn

\* hash(session_uuid): a number fixed for the string while the process
\* lives, of either sign (a stand-in for the interpreter's string hash)
PyHash(session_uuid) ==
    IF session_uuid % 2 = 0 THEN session_uuid * 1000003 + 49
    ELSE -(session_uuid * 1000003 + 1)

\* line 335: f"172.20.0.{100 + (hash(...) % 50)}" -- Python's % with a
\* positive modulus is never negative
VmIp(session_uuid) == <<172, 20, 0, 100 + (PyHash(session_uuid) % 50)>>

\* line 303: os.ttyname(slave_fd), the path of the pair's slave side
PtyPath(slave_fd) == <<"/dev/pts/", slave_fd>>

\* lines 305 and 314: f'pty={pty_path}', or 'tty' after a failure
SerialConfig(pty_path) ==
    IF pty_path = <<>> THEN <<"tty">> ELSE <<"pty=">> \o pty_path

\* lines 316-338: the argument vector, one entry for each option with its
\* value; pty_path is <<>> when the PTY allocation failed
BuildCommand(config, pty_path, drawn) ==
    << <<"bin/cloud-hypervisor">>,
       <<"--cpus", <<"boot=">> \o config.cpus>>,
       <<"--memory", <<"size=">> \o config.memory>>,
       <<"--kernel", <<config.kernel>> >>,
       <<"--disk", <<"path=", config.disk>> >>,
       <<"--console", <<"off">> >>,
       <<"--serial", SerialConfig(pty_path)>> >>
    \o (IF "cmdline" \in DOMAIN config
        THEN << <<"--cmdline", <<config.cmdline>> >> >> ELSE <<>>)
    \o (IF config.net
        THEN << <<"--net", <<"tap=ch-tap0", MacAddress(drawn),
                            VmIp(config.session_uuid),
                            "mask=255.255.255.0">> >> >>
        ELSE <<>>)

\* the value of an option in an argument vector, <<>> when it is not there
Option(cmd, flag) ==
    LET at == {i \in 2..Len(cmd) : cmd[i][1] = flag}
    IN  IF at = {} THEN <<>> ELSE cmd[CHOOSE i \in at : TRUE][2]

\* ---------------------------------------------- the health check's message
\* what the hypervisor may have printed before it exited: the three texts
\* the health check looks for, and one it does not know
Words == {"Resource busy", "TapOpen", "unexpected argument", "panic"}

\* ch_process.stdout.read(1024) and stderr.read(1024), decoded: nothing, or
\* one of the words ("" also when the read raises: lines 184-189)
Texts == {<<>>} \cup {<<w>> : w \in Words}

\* line 191: f"STDOUT: {stdout_output}\nSTDERR: {stderr_output}"
FullOutput(stdout_output, stderr_output) ==
    <<"STDOUT: ">> \o stdout_output \o <<"\nSTDERR: ">> \o stderr_output

\* `word in full_output`
Contains(full_output, word) ==
    \E i \in DOMAIN full_output : full_output[i] = word

\* no exception message
NoError == [message |-> "", detail |-> <<>>]

\* lines 194-201: the message of the exception raised by the health check
\* (the last two messages end with full_output)
BootError(full_output) ==
    IF Contains(full_output, "Resource busy")
    THEN [message |-> "Error booting VM: Network interface is busy. Try again in a few seconds.",
          detail |-> <<>>]
    ELSE IF Contains(full_output, "TapOpen")
    THEN [message |-> "Error booting VM: TAP interface error. Network may be in use.",
          detail |-> <<>>]
    ELSE IF Contains(full_output, "unexpected argument")
    THEN [message |-> "Error booting VM: Command line argument error. ",
          detail |-> full_output]
    ELSE [message |-> "Error booting VM: ", detail |-> full_output]

\* locals of a thread that runs no handler
IdleLoc ==
    [op |-> "none", terminal_id |-> TerminalId(0), user_id |-> NoUser,
     uuid |-> 0, master |-> NoFd, slave |-> NoFd, alloc |-> {}, pid |-> 0,
     failed |-> "none", term |-> <<>>, sigterm |-> FALSE, sigkill |-> FALSE,
     sigfail |-> FALSE, rmfail |-> FALSE, reg0 |-> EmptyMap,
     full_output |-> <<>>, error |-> NoError, recipe |-> EmptyMap,
     ch_cmd |-> <<>>, outer |-> <<>>, inner |-> <<>>, terminals |-> {}]

\* a handler returns r (or raises): the result is outstanding until the RPC
\* layer has relayed it to the caller, which it does before anything else
Return(t, r) ==
    /\ ret = NoRet
    /\ pc' = [pc EXCEPT ![t] = "idle"]
    /\ loc' = [loc EXCEPT ![t] = IdleLoc]
    /\ ret' = r
    /\ UNCHANGED net

Goto(t, label, locals) ==
    /\ ret = NoRet
    /\ pc' = [pc EXCEPT ![t] = label]
    /\ loc' = [loc EXCEPT ![t] = locals]
    /\ ret' = NoRet
    /\ UNCHANGED net

\* the RPC layer relays the outstanding result verbatim to the remote caller
Deliver ==
    /\ ret # NoRet
    /\ ret' = NoRet
    /\ UNCHANGED <<manager, os, pc, loc, history, faults, net>>

\* ------------------------------------------------------ the host network
\* a host on which nothing has been set up: no device ch-tap0, forwarding
\* off, no rule appended; created counts the devices ever created
Pristine ==
    [device |-> FALSE, address |-> FALSE, up |-> FALSE, forward |-> FALSE,
     rules |-> <<>>, created |-> 0]

\* line 65: ip tuntap add dev ch-tap0 mode tap
TuntapAdd(h) == [h EXCEPT !.device = TRUE, !.created = @ + 1]

\* line 69: ip addr add 172.20.0.1/24 dev ch-tap0
AddrAdd(h) == [h EXCEPT !.address = TRUE]

\* line 71: ip link set dev ch-tap0 up
LinkUp(h) == [h EXCEPT !.up = TRUE]

\* line 75: sysctl -w net.ipv4.ip_forward=1
Forwarding(h) == [h EXCEPT !.forward = TRUE]

\* lines 81-86: iptables -A appends the rule, whether or not the chain
\* already holds an equal one
RuleAppend(h, rule) == [h EXCEPT !.rules = Append(@, rule)]

\* the three rules of lines 81-86, in the order they are appended
NetRules == <<"masquerade", "forward_out", "forward_in">>

\* the host after a setup_network in which every command succeeded
Configured ==
    RuleAppend(RuleAppend(RuleAppend(
        Forwarding(LinkUp(AddrAdd(TuntapAdd(Pristine)))),
        NetRules[1]), NetRules[2]), NetRules[3])

\* line 25 is about to call cleanup_existing_vms for the n-th manager
\* constructed on this host, where stale hypervisor processes with ch-tap0
\* on their command line are left over; setup_network has not been entered:
\* before keeps the host as it is when line 26 calls setup_network.  pids
\* are the entries of the pgrep output still to be visited by the loop
Entering(n, stale) ==
    [pc |-> "pgrep", found |-> FALSE, iface |-> FALSE, printed |-> "none",
     runs |-> n, before |-> host, stale |-> stale, pids |-> 0,
     cleaned_count |-> 0, slept |-> FALSE]

\* setup_network has returned after printing "Network setup complete"
Constructed ==
    [pc |-> "done", found |-> FALSE, iface |-> TRUE, printed |-> "complete",
     runs |-> 1, before |-> Pristine, stale |-> 0, pids |-> 0,
     cleaned_count |-> 0, slept |-> FALSE]

\* __init__, lines 21-26: empty registry, counter 0; setup_network has
\* provisioned the host without a failure
Init ==
    /\ terminal_counter = 0
    /\ user_terminals = EmptyMap
    /\ user_order = <<>>
    /\ procs = <<>>
    /\ fds = EmptyMap
    /\ dirs = {}
    /\ uuids = 0
    /\ pc = [t \in Threads |-> "idle"]
    /\ loc = [t \in Threads |-> IdleLoc]
    /\ ret = NoRet
    /\ issued = <<>>
    /\ created = {}
    /\ closed = {}
    /\ outputs = EmptyMap
    /\ console = EmptyMap
    /\ faults = 0
    /\ host = Configured
    /\ setup = Constructed

\* ------------------------------------------------------------ processes
\* Popen.poll(): None while the child runs; an exited child is reaped by the
\* first poll that sees it (waitpid), after which its pid is gone
Alive(p) == procs[p] = "running"

Polled(ps, p) ==
    IF ps[p] = "zombie" THEN [ps EXCEPT ![p] = "reaped"] ELSE ps

\* the hypervisor exits on its own (guest shutdown, crash, or in reaction to
\* a signal); it stays a zombie until the manager polls it
ProcessExit(p) ==
    /\ p \in DOMAIN procs
    /\ procs[p] = "running"
    /\ procs' = [procs EXCEPT ![p] = "zombie"]
    /\ Faulty(1)
    /\ ret = NoRet
    /\ ret' = NoRet
    /\ UNCHANGED <<manager, fds, dirs, uuids, pc, loc, history, net>>

\* ------------------------------------------------------- create_terminal
\* line 121: terminal_id = f"terminal_{self.terminal_counter}"
CreateBegin(t, recipe, user_id) ==
    /\ pc[t] = "idle"
    /\ Len(issued) < MaxCreates
    /\ issued' = Append(issued, TerminalId(terminal_counter))
    /\ Goto(t, "create_incr",
            [IdleLoc EXCEPT !.op = "create",
                            !.terminal_id = TerminalId(terminal_counter),
                            !.user_id = user_id,
                            !.recipe = recipe,
                            !.reg0 = user_terminals])
    /\ UNCHANGED <<manager, os, created, closed, outputs, console, faults>>

\* lines 122-127: the counter is incremented, the uuid drawn and the work
\* directory made; os.makedirs is outside the try block, so its failure
\* leaves create_terminal as an exception
CreateIncr(t, E) ==
    /\ pc[t] = "create_incr"
    /\ terminal_counter' = NextCounter(terminal_counter)
    /\ uuids' = uuids + 1
    /\ \E made \in E.made :
          /\ Faulty(Cost(~made))
          /\ IF made
             THEN /\ dirs' = dirs \cup {uuids + 1}
                  /\ Goto(t, "create_launch", [loc[t] EXCEPT !.uuid = uuids + 1])
             ELSE /\ dirs' = dirs
                  /\ Return(t, Ret("create", loc[t].terminal_id,
                                   loc[t].user_id, "raised",
                                   [loc[t] EXCEPT !.uuid = uuids + 1,
                                                  !.failed = "makedirs"]))
    /\ UNCHANGED <<user_terminals, user_order, procs, fds, history>>

\* _build_cloud_hypervisor_command, lines 293-314: pty.openpty() takes the
\* two lowest free descriptor numbers; when os.ttyname or the path test
\* fails afterwards the config records None for both and the pair stays open
PtyAlloc(outcome, uuid) ==
    IF outcome = "openpty_failed" THEN EmptyMap
    ELSE LET m == LowestFree(DOMAIN fds)
             s == LowestFree(DOMAIN fds \cup {m})
         IN  (m :> [uuid |-> uuid, end |-> "master"])
                @@ (s :> [uuid |-> uuid, end |-> "slave"])

PtyEnd(alloc, end) == CHOOSE n \in DOMAIN alloc : alloc[n].end = end

\* lines 178-201 with the health check's outcome ignored
AfterLaunch_Unchecked(failed) ==
    IF failed \in {"none", "health"} THEN "create_register" ELSE "create_fail"

\* lines 129-201: a raising statement, the health check's raise at line 201
\* included, leads to the except handler; otherwise the session is stored
AfterLaunch(failed) ==
    IF failed = "none" THEN "create_register" ELSE "create_fail"

\* lines 129-201: config, PTY, command pre-test, startup script, Popen, and
\* the health check after time.sleep(2).  failed names the statement that
\* raised ("none": the process was still running at the health check); when
\* _prepare_vm_config raises, the command is not built and no PTY allocated
CreateLaunch(t, E) ==
    /\ pc[t] = "create_launch"
    /\ \E outcome \in E.pty, failed \in E.failed, drawn \in E.drawn,
          stdout_output \in E.texts, stderr_output \in E.texts :
          LET built == failed # "config"
              exited == failed = "health"
              full_output == IF exited
                             THEN FullOutput(stdout_output, stderr_output)
                             ELSE <<>>
              alloc == IF built THEN PtyAlloc(outcome, loc[t].uuid)
                       ELSE EmptyMap
              recorded == built /\ outcome = "pty"
              launched == failed \in {"health", "none"}
              pid == Len(procs) + 1
              vm_config == PrepareVmConfig(loc[t].recipe, loc[t].uuid)
              pty_path == IF recorded THEN PtyPath(PtyEnd(alloc, "slave"))
                          ELSE <<>>
          IN
          /\ ~built => outcome = "pty"
          /\ ~exited => stdout_output = <<>> /\ stderr_output = <<>>
          /\ Faulty(Cost(outcome # "pty"))
          /\ fds' = alloc @@ fds
          /\ procs' = IF launched
                      THEN Append(procs, IF failed = "health" THEN "reaped"
                                         ELSE "running")
                      ELSE procs
          /\ Goto(t, AfterLaunch(failed),
                  [loc[t] EXCEPT
                      !.master = IF recorded THEN PtyEnd(alloc, "master") ELSE NoFd,
                      !.slave = IF recorded THEN PtyEnd(alloc, "slave") ELSE NoFd,
                      !.alloc = DOMAIN alloc,
                      !.pid = IF launched THEN pid ELSE 0,
                      !.failed = failed,
                      !.ch_cmd = IF built
                                 THEN BuildCommand(vm_config, pty_path, drawn)
                                 ELSE <<>>,
                      !.full_output = full_output,
                      !.error = IF exited THEN BootError(full_output)
                                ELSE NoError])
    /\ UNCHANGED <<manager, dirs, uuids, history>>

\* lines 209-221: the terminal_data dict
Session(l) ==
    [process |-> l.pid, work_dir |-> l.uuid, session_uuid |-> l.uuid,
     user_id |-> l.user_id, screen_buffer |-> <<>>,
     pty_master |-> l.master, pty_slave |-> l.slave]

\* line 205: self.user_terminals[user_id] = {} -- a map that is there is
\* replaced by an empty one (the key keeps its place in the dict)
NewMap(reg, user_id) == Put(reg, user_id, EmptyMap)

\* line 209: self.user_terminals[user_id][terminal_id] = {...}
Store(reg, user_id, terminal_id, session) ==
    [reg EXCEPT ![user_id] = Put(@, terminal_id, session)]

\* the uuids of the sessions a registry holds
SessionUuids(reg) ==
    UNION {{reg[u][tid].session_uuid : tid \in DOMAIN reg[u]} : u \in DOMAIN reg}

\* the record of outputs follows the registry: it keeps the sessions stored
KeptOutputs(reg, outs) ==
    [uuid \in SessionUuids(reg) \cap DOMAIN outs |-> outs[uuid]]

\* line 204: `if user_id not in self.user_terminals:`
CreateRegister(t) ==
    /\ pc[t] = "create_register"
    /\ Goto(t, IF loc[t].user_id \notin DOMAIN user_terminals
               THEN "create_map" ELSE "create_store", loc[t])
    /\ UNCHANGED <<manager, os, history, faults>>

\* line 205, reached when line 204 found no map for the user
CreateMap(t) ==
    /\ pc[t] = "create_map"
    /\ LET reg == NewMap(user_terminals, loc[t].user_id)
       IN  /\ user_terminals' = reg
           /\ outputs' = KeptOutputs(reg, outputs)
           /\ console' = KeptOutputs(reg, console)
    /\ user_order' = IF loc[t].user_id \in DOMAIN user_terminals
                     THEN user_order
                     ELSE Append(user_order, loc[t].user_id)
    /\ Goto(t, "create_store", loc[t])
    /\ UNCHANGED <<terminal_counter, os, issued, created, closed, faults>>

\* lines 207-223: the entry is stored in the user's map and success returned
CreateStore(t) ==
    /\ pc[t] = "create_store"
    /\ LET reg == Store(user_terminals, loc[t].user_id,
                        loc[t].terminal_id, Session(loc[t]))
       IN  /\ user_terminals' = reg
           /\ outputs' = KeptOutputs(reg, Put(outputs, loc[t].uuid, <<>>))
           /\ console' = KeptOutputs(reg, Put(console, loc[t].uuid, NoInput))
    /\ created' = created \cup {[user_id |-> loc[t].user_id,
                                 terminal_id |-> loc[t].terminal_id,
                                 uuid |-> loc[t].uuid]}
    /\ Return(t, Ret("create", loc[t].terminal_id, loc[t].user_id, "ok", loc[t]))
    /\ UNCHANGED <<terminal_counter, user_order, os, issued, closed, faults>>

\* lines 227-228: if os.path.exists(work_dir): shutil.rmtree(work_dir)
CleanupOnError_Skipped(ds, work_dir) == ds

CleanupOnError(ds, work_dir) == ds \ {work_dir}

\* lines 225-229: the except handler; shutil.rmtree is not guarded, so when
\* it fails the exception leaves create_terminal
CreateFail(t, E) ==
    /\ pc[t] = "create_fail"
    /\ \E removed \in E.removed :
          /\ Faulty(Cost(~removed))
          /\ IF removed
             THEN /\ dirs' = CleanupOnError(dirs, loc[t].uuid)
                  /\ Return(t, Ret("create", loc[t].terminal_id,
                                   loc[t].user_id, "error", loc[t]))
             ELSE /\ dirs' = dirs
                  /\ Return(t, Ret("create", loc[t].terminal_id,
                                   loc[t].user_id, "raised",
                                   [loc[t] EXCEPT !.rmfail = TRUE]))
    /\ UNCHANGED <<manager, procs, fds, uuids, history>>

\* ---------------------------------------------------------- _find_terminal
\* lines 350-360, with every user_id treated as absent: the search across
\* all users
FindTerminal_Unscoped(terminal_id, user_id) ==
    LET hits == {i \in 1..Len(user_order) :
                    terminal_id \in DOMAIN user_terminals[user_order[i]]}
    IN  IF hits = {} THEN <<>>
        ELSE <<user_terminals[user_order[Min(hits)]][terminal_id]>>

\* lines 350-360: the session dict, or None (the empty sequence); with a
\* truthy user_id only that user's map is looked at, otherwise the maps are
\* searched in dict order and the first hit returned
FindTerminal(terminal_id, user_id) ==
    IF Truthy(user_id)
    THEN IF /\ user_id \in DOMAIN user_terminals
            /\ terminal_id \in DOMAIN user_terminals[user_id]
         THEN <<user_terminals[user_id][terminal_id]>>
         ELSE <<>>
    ELSE FindTerminal_Unscoped(terminal_id, user_id)

\* lines 471-474 alone: the deletion from the given user's map, without the
\* search across all users of lines 475-480
RemoveTerminal_ScopedOnly(terminal_id, user_id) ==
    IF /\ Truthy(user_id)
       /\ user_id \in DOMAIN user_terminals
       /\ terminal_id \in DOMAIN user_terminals[user_id]
    THEN [user_terminals EXCEPT ![user_id] = Del(@, terminal_id)]
    ELSE user_terminals

\* lines 471-480: the entry is deleted from the user's map when a truthy
\* user_id with a map is given, else from the first map that holds the id
RemoveTerminal(terminal_id, user_id) ==
    IF Truthy(user_id) /\ user_id \in DOMAIN user_terminals
    THEN IF terminal_id \in DOMAIN user_terminals[user_id]
         THEN [user_terminals EXCEPT ![user_id] = Del(@, terminal_id)]
         ELSE user_terminals
    ELSE LET hits == {i \in 1..Len(user_order) :
                         terminal_id \in DOMAIN user_terminals[user_order[i]]}
         IN  IF hits = {} THEN user_terminals
             ELSE [user_terminals EXCEPT
                      ![user_order[Min(hits)]] = Del(@, terminal_id)]

\* the removal placed inside the try block: skipped when cleanup raised
CloseRegistry_InsideTry(terminal_id, user_id, cleanup_failed) ==
    IF cleanup_failed THEN user_terminals
    ELSE RemoveTerminal(terminal_id, user_id)

\* lines 468-480: the removal follows the try/except, so it runs whether or
\* not the cleanup raised
CloseRegistry(terminal_id, user_id, cleanup_failed) ==
    RemoveTerminal(terminal_id, user_id)

\* -------------------------------------------------------- close_terminal
\* line 443 with the kill of line 451 taken first
AfterProbe_KillFirst(alive) ==
    IF alive THEN "close_sigkill" ELSE "close_fds"

\* line 443: `if process.poll() is None:` guards the signalling
AfterProbe(alive) == IF alive THEN "close_sigterm" ELSE "close_fds"

\* lines 436-443: lookup, then the first liveness probe
CloseBegin(t, terminal_id, user_id) ==
    /\ pc[t] = "idle"
    /\ LET found == FindTerminal(terminal_id, user_id) IN
       IF found = <<>>
       THEN /\ Return(t, Ret("close", terminal_id, user_id, "not_found",
                             IdleLoc))
            /\ UNCHANGED <<manager, os, history, faults>>
       ELSE LET p == found[1].process IN
            /\ procs' = Polled(procs, p)
            /\ Goto(t, AfterProbe(Alive(p)),
                    [IdleLoc EXCEPT !.op = "close",
                                    !.terminal_id = terminal_id,
                                    !.user_id = user_id,
                                    !.term = found])
            /\ UNCHANGED <<manager, fds, dirs, uuids, history, faults>>

\* lines 444-447: os.killpg(os.getpgid(process.pid), SIGTERM), then
\* time.sleep(1).  getpgid raises ProcessLookupError once the child has been
\* reaped (an exited child that nobody polled is still a zombie and can be
\* signalled); the exception leaves the try block
CloseSigterm(t) ==
    /\ pc[t] = "close_sigterm"
    /\ LET p == loc[t].term[1].process IN
       IF procs[p] = "reaped"
       THEN /\ procs' = procs
            /\ Goto(t, "close_remove", [loc[t] EXCEPT !.sigfail = TRUE])
       ELSE /\ procs' = procs
            /\ Goto(t, "close_poll", [loc[t] EXCEPT !.sigterm = TRUE])
    /\ UNCHANGED <<manager, fds, dirs, uuids, history, faults>>

\* line 450 with a wait for the exit (process.wait()) in place of the kill
AfterWait_WaitsForExit(exited) ==
    IF exited THEN "close_fds" ELSE "close_wait"

\* line 450: `if process.poll() is None:` guards the kill
AfterWait(exited) == IF exited THEN "close_fds" ELSE "close_sigkill"

\* lines 447-450: time.sleep(1), then the second liveness probe; a child
\* that was running may have exited on the SIGTERM in the meantime
ClosePoll(t) ==
    /\ pc[t] = "close_poll"
    /\ LET p == loc[t].term[1].process IN
       \E exited \in IF Alive(p) THEN BOOLEAN ELSE {TRUE} :
          /\ procs' = IF exited THEN [procs EXCEPT ![p] = "reaped"] ELSE procs
          /\ Goto(t, AfterWait(exited), loc[t])
    /\ UNCHANGED <<manager, fds, dirs, uuids, history, faults>>

\* line 451: os.killpg(os.getpgid(process.pid), SIGKILL)
CloseSigkill(t) ==
    /\ pc[t] = "close_sigkill"
    /\ LET p == loc[t].term[1].process IN
       IF procs[p] = "reaped"
       THEN /\ procs' = procs
            /\ Goto(t, "close_remove", [loc[t] EXCEPT !.sigfail = TRUE])
       ELSE /\ procs' = [procs EXCEPT ![p] = "zombie"]
            /\ Goto(t, "close_fds", [loc[t] EXCEPT !.sigkill = TRUE])
    /\ UNCHANGED <<manager, fds, dirs, uuids, history, faults>>

\* os.close(n): whatever is open under descriptor number n is closed; an
\* OSError (n not open) is swallowed by the bare except
OsClose(table, n) == IF n \in DOMAIN table THEN Del(table, n) ELSE table

\* lines 453-467: both descriptors are closed, then the work directory is
\* removed; a failing shutil.rmtree leaves the try block
CloseFds(t, E) ==
    /\ pc[t] = "close_fds"
    /\ LET term == loc[t].term[1] IN
       /\ fds' = OsClose(OsClose(fds, term.pty_master), term.pty_slave)
       /\ IF term.work_dir \in dirs
          THEN \E removed \in E.removed :
                  /\ Faulty(Cost(~removed))
                  /\ IF removed
                     THEN /\ dirs' = dirs \ {term.work_dir}
                          /\ Goto(t, "close_remove", loc[t])
                     ELSE /\ dirs' = dirs
                          /\ Goto(t, "close_remove",
                                  [loc[t] EXCEPT !.rmfail = TRUE])
          ELSE /\ dirs' = dirs
               /\ faults' = faults
               /\ Goto(t, "close_remove", loc[t])
    /\ UNCHANGED <<manager, procs, uuids, history>>

\* lines 471-482
CloseRemove(t) ==
    /\ pc[t] = "close_remove"
    /\ LET reg == CloseRegistry(loc[t].terminal_id, loc[t].user_id,
                                loc[t].sigfail \/ loc[t].rmfail)
       IN  /\ user_terminals' = reg
           /\ outputs' = KeptOutputs(reg, outputs)
           /\ console' = KeptOutputs(reg, console)
    /\ closed' = closed \cup {[terminal_id |-> loc[t].terminal_id,
                               uuid |-> loc[t].term[1].session_uuid]}
    /\ Return(t, Ret("close", loc[t].terminal_id, loc[t].user_id, "ok", loc[t]))
    /\ UNCHANGED <<terminal_counter, user_order, os, issued, created, faults>>

\* ------------------------------------------------- the one-step handlers
\* write_to_terminal, read_from_terminal, resize_terminal, list_terminals,
\* get_screen_content and get_terminal_status run as one step.  What such a
\* handler returns is a function of the state it is called in (the ...Result
\* operators below); the step itself keeps only what the handler changes,
\* and the result is relayed to the caller at once
OneStep(t) ==
    /\ pc[t] = "idle"
    /\ ret = NoRet
    /\ UNCHANGED <<pc, loc, ret, net>>

\* the liveness probe of lines 369 and 393 with its outcome turned round
Stopped_Inverted(found) == Alive(found[1].process)

\* `terminal['process'].poll() is not None` on the session found
Stopped(found) == ~Alive(found[1].process)

\* a descriptor recorded for a session that is no longer open: select and
\* os.write raise on it
DescriptorClosed(term) ==
    term.pty_master # NoFd /\ term.pty_master \notin DOMAIN fds

\* lines 363-384: the success flag and error of write_to_terminal; os.write
\* raising on the descriptor reaches the except of line 383
WriteResult(terminal_id, user_id) ==
    LET found == FindTerminal(terminal_id, user_id) IN
    IF found = <<>> THEN "not_found"
    ELSE IF Stopped(found) THEN "stopped"
    ELSE IF DescriptorClosed(found[1]) THEN "error"
    ELSE "ok"

\* lines 373-380: where the bytes of a write go -- to the PTY master when
\* one was recorded, else to the process's standard input (a pipe the
\* manager never closes); to neither when the write returns a failure
WriteDelivered(terminal_id, user_id) ==
    IF WriteResult(terminal_id, user_id) # "ok" THEN "none"
    ELSE IF FindTerminal(terminal_id, user_id)[1].pty_master # NoFd THEN "pty"
    ELSE "stdin"

\* the strings callers write, as sequences of code points: "", "h", and
\* "e-acute, newline"
Commands == {<<>>, <<104>>, <<233, 10>>}

\* str.encode() (UTF-8) of one code point below 2048
EncodeChar(c) ==
    IF c < 128 THEN <<c>> ELSE <<192 + (c \div 64), 128 + (c % 64)>>

\* command.encode(), lines 374 and 378
RECURSIVE Encode(_)
Encode(command) ==
    IF command = <<>> THEN <<>>
    ELSE EncodeChar(Head(command)) \o Encode(Tail(command))

\* os.write with the new bytes placed ahead of those written before
Written_InFront(c, command) ==
    [sent |-> Append(c.sent, command), got |-> Encode(command) \o c.got]

\* lines 374 and 378-379: os.write(pty_master, command.encode()), or
\* stdin.write and flush on the unbuffered pipe (bufsize=0, line 170): the
\* bytes follow those written before
Written(c, command) ==
    [sent |-> Append(c.sent, command), got |-> c.got \o Encode(command)]

\* lines 362-384: NotFound, then the liveness probe, then the bytes go to the
\* PTY master (or to the process's stdin when no PTY was recorded)
WriteToTerminal(t, E, terminal_id, command, user_id) ==
    /\ OneStep(t)
    /\ procs' = IF WriteResult(terminal_id, user_id) = "not_found" THEN procs
                ELSE Polled(procs, FindTerminal(terminal_id, user_id)[1].process)
    /\ IF WriteDelivered(terminal_id, user_id) = "none" \/ command = <<>>
       THEN console' = console
       ELSE LET uuid == FindTerminal(terminal_id, user_id)[1].session_uuid IN
            /\ Len(console[uuid].sent) < E.writes
            /\ console' = [console EXCEPT ![uuid] = Written(@, command)]
    /\ UNCHANGED <<manager, fds, dirs, uuids, issued, created, closed, outputs,
                   faults>>

\* what os.read delivers, decoded: the n-th chunk of a session's console
\* output is told apart from every other by its place n in the stream
Chunk(n) == <<n>>

\* the chunks the stored sessions' reads have returned, all sessions together
RECURSIVE Total(_, _)
Total(outs, keys) ==
    IF keys = {} THEN 0
    ELSE LET k == CHOOSE k \in keys : TRUE IN
         Len(outs[k]) + Total(outs, keys \ {k})

ChunksRead == Total(outputs, DOMAIN outputs)

\* the chunk the next non-empty read of a session returns
NextChunk(uuid) == Chunk(Len(outputs[uuid]) + 1)

\* lines 406-409 with the chunk put in front of the buffer
Appended_InFront(buffer, chunk) ==
    LET b == <<chunk>> \o buffer IN
    IF Len(b) > ScreenBufferCap
    THEN SubSeq(b, Len(b) - ScreenBufferCap + 1, Len(b))
    ELSE b

\* lines 406-409 with the slice keeping the first 1000 entries
Appended_KeepsFirst(buffer, chunk) ==
    LET b == Append(buffer, chunk) IN
    IF Len(b) > ScreenBufferCap THEN SubSeq(b, 1, ScreenBufferCap) ELSE b

\* lines 406-409: append, then keep the last 1000 entries
Appended(buffer, chunk) ==
    LET b == Append(buffer, chunk) IN
    IF Len(b) > ScreenBufferCap
    THEN SubSeq(b, Len(b) - ScreenBufferCap + 1, Len(b))
    ELSE b

\* read_from_terminal without the liveness probe of lines 393-394
ReadResult_NoProbe(terminal_id, user_id) ==
    LET found == FindTerminal(terminal_id, user_id) IN
    IF found = <<>> THEN "not_found"
    ELSE IF DescriptorClosed(found[1]) THEN "error"
    ELSE "ok"

\* lines 387-398, 432-433: the success flag and error of read_from_terminal;
\* select raising on the descriptor reaches the outer except
ReadResult(terminal_id, user_id) ==
    LET found == FindTerminal(terminal_id, user_id) IN
    IF found = <<>> THEN "not_found"
    ELSE IF Stopped(found) THEN "stopped"
    ELSE IF DescriptorClosed(found[1]) THEN "error"
    ELSE "ok"

\* lines 398-415 with the fallback branch taken for every session
ReadSource_StdoutOnly(terminal_id, user_id) ==
    IF ReadResult(terminal_id, user_id) # "ok" THEN "none" ELSE "stdout"

\* lines 398-415: where a read takes its bytes from -- select and os.read
\* on the PTY master when one was recorded, else on the process's standard
\* output (a pipe the manager never closes); on neither when the read
\* returns a failure
ReadSource(terminal_id, user_id) ==
    IF ReadResult(terminal_id, user_id) # "ok" THEN "none"
    ELSE IF FindTerminal(terminal_id, user_id)[1].pty_master # NoFd THEN "pty"
    ELSE "stdout"

\* lines 398-431: how the bounded wait and os.read end -- nothing ready
\* within 0.1 s, ready but zero bytes read, os.read raising OSError, or a
\* chunk of bytes
ReadCases == {"not_ready", "zero_bytes", "os_error", "chunk"}

\* line 403 with the OSError of os.read taken for data
Delivers_OnError(got) == got \in {"chunk", "os_error"}

\* lines 400-403: ready, os.read returned, and `if output:` holds
Delivers(got) == got = "chunk"

\* lines 410, 427, 431: the "output" of a read that returns success
ReadOutput(terminal_id, user_id, got) ==
    IF Delivers(got)
    THEN NextChunk(FindTerminal(terminal_id, user_id)[1].session_uuid)
    ELSE <<>>

\* lines 386-433 for one way the wait and os.read end: NotFound, then the
\* liveness probe, then select/os.read on the PTY master (or on stdout); a
\* chunk is appended to the session's screen_buffer and returned, anything
\* else gives the empty output
ReadStep(t, E, terminal_id, user_id, got) ==
    /\ OneStep(t)
    /\ LET result == ReadResult(terminal_id, user_id) IN
       IF result = "not_found"
       THEN UNCHANGED <<procs, user_terminals, outputs>>
       ELSE LET term == FindTerminal(terminal_id, user_id)[1] IN
            /\ procs' = Polled(procs, term.process)
            /\ IF result = "ok" /\ Delivers(got)
               THEN LET output == ReadOutput(terminal_id, user_id, got) IN
                    /\ ChunksRead < E.chunks
                    /\ Len(outputs[term.session_uuid]) + 1 \in E.positions
                    /\ user_terminals' =
                          [user_terminals EXCEPT
                              ![term.user_id][terminal_id].screen_buffer =
                                  Appended(@, output)]
                    /\ outputs' = [outputs EXCEPT ![term.session_uuid] =
                                      Append(@, output)]
               ELSE UNCHANGED <<user_terminals, outputs>>
    /\ UNCHANGED <<terminal_counter, user_order, fds, dirs, uuids, issued,
                   created, closed, console, faults>>

\* lines 386-433
ReadFromTerminal(t, E, terminal_id, user_id) ==
    \E got \in ReadCases : ReadStep(t, E, terminal_id, user_id, got)

\* rows and cols as the RPC layer passes them on: a usual size and a
\* negative number
Sizes == {-1, 24}

\* resize_terminal with the liveness probe that write and read make
ResizeResult_Probing(terminal_id, rows, cols, user_id) ==
    LET found == FindTerminal(terminal_id, user_id) IN
    IF found = <<>> THEN "not_found"
    ELSE IF Stopped(found) THEN "stopped"
    ELSE "ok"

\* lines 485-492: the success flag and error of resize_terminal; rows and
\* cols are not looked at
ResizeResult(terminal_id, rows, cols, user_id) ==
    IF FindTerminal(terminal_id, user_id) = <<>> THEN "not_found" ELSE "ok"

\* lines 484-494: NotFound or a plain acknowledgement
ResizeTerminal(t, terminal_id, rows, cols, user_id) ==
    /\ OneStep(t)
    /\ UNCHANGED <<manager, os, history, faults>>

\* lines 496-521 with the user_id ignored: every user's sessions
ListTerminals_Unscoped(user_id) ==
    UNION {{<<tid, user_terminals[u][tid]>> : tid \in DOMAIN user_terminals[u]} :
              u \in DOMAIN user_terminals}

\* lines 496-521: the (tid, tdata) items list_terminals walks over -- one
\* user's with a truthy user_id (none if the user has no map), else every
\* user's
ListTerminals(user_id) ==
    IF Truthy(user_id)
    THEN IF user_id \in DOMAIN user_terminals
         THEN {<<tid, user_terminals[user_id][tid]>> :
                  tid \in DOMAIN user_terminals[user_id]}
         ELSE {}
    ELSE ListTerminals_Unscoped(user_id)

\* lines 501-506 / 515-520: the "terminals" list_terminals returns, one
\* entry per item (the order of the list is not kept)
ListResult(user_id) ==
    {[id |-> item[1],
      status |-> IF Alive(item[2].process) THEN "running" ELSE "stopped"] :
        item \in ListTerminals(user_id)}

\* list_terminals made to drop the entries whose process has exited
ListTerminalsCall_Prunes(t, user_id) ==
    /\ OneStep(t)
    /\ LET reg == [u \in DOMAIN user_terminals |->
                      [tid \in {tid \in DOMAIN user_terminals[u] :
                                   Alive(user_terminals[u][tid].process)}
                          |-> user_terminals[u][tid]]]
       IN  /\ user_terminals' = reg
           /\ outputs' = KeptOutputs(reg, outputs)
           /\ console' = KeptOutputs(reg, console)
    /\ UNCHANGED <<terminal_counter, user_order, os, issued, created, closed,
                   faults>>

\* lines 496-521: the status of each entry comes from a poll of its process
ListTerminalsCall(t, user_id) ==
    /\ OneStep(t)
    /\ procs' = [p \in DOMAIN procs |->
                    IF \E item \in ListTerminals(user_id) : item[2].process = p
                    THEN Polled(procs, p)[p] ELSE procs[p]]
    /\ UNCHANGED <<manager, fds, dirs, uuids, history, faults>>

\* the chunks lo..hi of a list one after the other, first to last (computed
\* by halves, which gives the same string)
RECURSIVE JoinRange(_, _, _)
JoinRange(chunks, lo, hi) ==
    IF lo > hi THEN <<>>
    ELSE IF lo = hi THEN chunks[lo]
    ELSE LET mid == (lo + hi) \div 2 IN
         JoinRange(chunks, lo, mid) \o JoinRange(chunks, mid + 1, hi)

\* ''.join(chunks) with the chunks taken from the last to the first
Join_Reversed(chunks) ==
    JoinRange([i \in 1..Len(chunks) |-> chunks[Len(chunks) + 1 - i]],
              1, Len(chunks))

\* ''.join(chunks)
Join(chunks) == JoinRange(chunks, 1, Len(chunks))

\* lines 524-531: the success flag and error of get_screen_content
ScreenResult(terminal_id, user_id) ==
    IF FindTerminal(terminal_id, user_id) = <<>> THEN "not_found" ELSE "ok"

\* line 530: the content returned for a session that was found
ScreenContent(terminal_id, user_id) ==
    Join(FindTerminal(terminal_id, user_id)[1].screen_buffer)

\* lines 523-533
GetScreenContent(t, terminal_id, user_id) ==
    /\ OneStep(t)
    /\ UNCHANGED <<manager, os, history, faults>>

\* lines 537-551: the success flag and error of get_terminal_status
StatusResult(terminal_id, user_id) ==
    IF FindTerminal(terminal_id, user_id) = <<>> THEN "not_found" ELSE "ok"

\* lines 542-550: the status returned for a session that was found
StatusOf(terminal_id, user_id) ==
    LET term == FindTerminal(terminal_id, user_id)[1] IN
    [running |-> Alive(term.process), pid |-> term.process,
     work_dir |-> term.work_dir]

\* lines 535-553: running comes from a poll of the process
GetTerminalStatus(t, terminal_id, user_id) ==
    /\ OneStep(t)
    /\ procs' = IF StatusResult(terminal_id, user_id) = "not_found" THEN procs
                ELSE Polled(procs, FindTerminal(terminal_id, user_id)[1].process)
    /\ UNCHANGED <<manager, fds, dirs, uuids, history, faults>>

\* what the surroundings may do to a handler: whether os.makedirs and
\* shutil.rmtree succeed, how the PTY allocation ends, which statement of
\* create_terminal's try block raises, who calls and on which ids, and how
\* many chunks the consoles deliver to reads, at which places of a stream,
\* what callers write and how many writes with data a console receives,
\* what a hypervisor that exits at once has printed, how many create
\* calls are made, with which recipes, and which bytes random.randint
\* draws for a MAC address
AnyEnv ==
    [made |-> BOOLEAN, removed |-> BOOLEAN, pty |-> PtyOutcomes,
     failed |-> FailSteps \cup {"none"}, users |-> Users, callers |-> Callers,
     ids |-> TerminalIds, chunks |-> MaxChunks, positions |-> 1..MaxChunks,
     commands |-> Commands, writes |-> 0, texts |-> Texts,
     recipes |-> {EmptyMap}, drawn |-> {<<0, 0, 0>>},
     creates |-> MaxCreates]

\* a filesystem and a PTY layer that never fail, and callers that pass no
\* user_id and work on the first id
CalmEnv ==
    [made |-> {TRUE}, removed |-> {TRUE}, pty |-> {"pty"},
     failed |-> {"health", "none"}, users |-> Users, callers |-> {NoUser},
     ids |-> {TerminalId(0)}, chunks |-> MaxChunks,
     positions |-> 1..MaxChunks,
     commands |-> Commands, writes |-> 0, texts |-> {<<>>},
     recipes |-> {EmptyMap}, drawn |-> {<<0, 0, 0>>},
     creates |-> MaxCreates]

Handler(t, E) ==
    \/ \E recipe \in E.recipes, user_id \in E.users :
          Len(issued) < E.creates /\ CreateBegin(t, recipe, user_id)
    \/ CreateIncr(t, E)
    \/ CreateLaunch(t, E)
    \/ CreateRegister(t)
    \/ CreateMap(t)
    \/ CreateStore(t)
    \/ CreateFail(t, E)
    \/ \E terminal_id \in E.ids, user_id \in E.callers :
          CloseBegin(t, terminal_id, user_id)
    \/ CloseSigterm(t)
    \/ ClosePoll(t)
    \/ CloseSigkill(t)
    \/ CloseFds(t, E)
    \/ CloseRemove(t)
    \/ \E terminal_id \in E.ids, user_id \in E.callers :
          \/ \E command \in E.commands :
                WriteToTerminal(t, E, terminal_id, command, user_id)
          \/ ReadFromTerminal(t, E, terminal_id, user_id)
          \/ \E rows \in Sizes, cols \in Sizes :
                ResizeTerminal(t, terminal_id, rows, cols, user_id)
          \/ GetScreenContent(t, terminal_id, user_id)
          \/ GetTerminalStatus(t, terminal_id, user_id)
    \/ \E user_id \in E.callers : ListTerminalsCall(t, user_id)

Environment == Deliver \/ \E p \in DOMAIN procs : ProcessExit(p)

Next == Handler(MainThread, AnyEnv) \/ Environment

Spec == Init /\ [][Next]_vars

NextConc == (\E t \in Threads : Handler(t, CalmEnv)) \/ Environment

SpecConc == Init /\ [][NextConc]_vars

\* ------------------------------------------- a session with a long console
\* the first k chunks of a console's output
Stream(k) == [i \in 1..k |-> Chunk(i)]

\* the manager after alice's create_terminal returned terminal_0 (uuid 1,
\* pid 1, PTY on descriptors 0 and 1) and k reads on it returned a chunk
\* each, k <= 1000: lines 203-221 for the entry, 406-409 for its buffer
BufferState(k) ==
    /\ terminal_counter = 1
    /\ user_terminals =
          ("alice" :> (TerminalId(0) :>
              [process |-> 1, work_dir |-> 1, session_uuid |-> 1,
               user_id |-> "alice", screen_buffer |-> Stream(k),
               pty_master |-> 0, pty_slave |-> 1]))
    /\ user_order = <<"alice">>
    /\ procs = <<"running">>
    /\ fds = (0 :> [uuid |-> 1, end |-> "master"])
                @@ (1 :> [uuid |-> 1, end |-> "slave"])
    /\ dirs = {1}
    /\ uuids = 1
    /\ pc = [t \in Threads |-> "idle"]
    /\ loc = [t \in Threads |-> IdleLoc]
    /\ ret = NoRet
    /\ issued = <<TerminalId(0)>>
    /\ created = {[user_id |-> "alice", terminal_id |-> TerminalId(0),
                   uuid |-> 1]}
    /\ closed = {}
    /\ outputs = (1 :> Stream(k))
    /\ console = (1 :> NoInput)
    /\ faults = 0
    /\ host = Configured
    /\ setup = Constructed

\* how many chunks the session's console has delivered when the run starts:
\* one less than the buffer's cap
BufferStarts == {ScreenBufferCap - 1}

InitBuffer == \E k \in BufferStarts : BufferState(k)

\* a filesystem and a PTY layer that never fail, further sessions made by
\* bob, any caller on any id, and a console that delivers the chunks around
\* the cap
BufferEnv ==
    [made |-> {TRUE}, removed |-> {TRUE}, pty |-> {"pty"},
     failed |-> {"health", "none"}, users |-> {"bob"}, callers |-> Callers,
     ids |-> TerminalIds,
     chunks |-> ScreenBufferCap + MaxChunks + 1,
     positions |-> ScreenBufferCap .. ScreenBufferCap + MaxChunks + 1,
     commands |-> Commands, writes |-> 0, texts |-> {<<>>},
     recipes |-> {EmptyMap}, drawn |-> {<<0, 0, 0>>},
     creates |-> MaxCreates]

NextBuffer == Handler(MainThread, BufferEnv) \/ Environment

SpecBuffer == InitBuffer /\ [][NextBuffer]_vars

\* sessions created in a run that follows the consoles' input
WriteSessions == 2

\* one owner, a PTY allocation that may fail (the writes then go to the
\* process's stdin), calls without user_id, consoles that stay silent, and
\* writes that carry data
WriteEnv ==
    [made |-> {TRUE}, removed |-> {TRUE}, pty |-> {"pty", "openpty_failed"},
     failed |-> {"health", "none"}, users |-> {"alice"},
     callers |-> {NoUser}, ids |-> {TerminalId(n) : n \in 0..WriteSessions},
     chunks |-> 0, positions |-> {}, commands |-> Commands,
     writes |-> MaxWrites, texts |-> {<<>>},
     recipes |-> {EmptyMap}, drawn |-> {<<0, 0, 0>>}, creates |-> WriteSessions]

NextWrite == Handler(MainThread, WriteEnv) \/ Environment

SpecWrite == Init /\ [][NextWrite]_vars

\* the statements of close_terminal are system calls that return and a
\* sleep of one second: the thread that runs a close takes its next step
CloseProgress ==
    /\ WF_vars(CloseSigterm(MainThread))
    /\ WF_vars(ClosePoll(MainThread))
    /\ WF_vars(CloseSigkill(MainThread))
    /\ WF_vars(CloseFds(MainThread, AnyEnv))
    /\ WF_vars(CloseRemove(MainThread))

SpecLive == Spec /\ CloseProgress

\* ------------------------------------------------------- setup_network
\* managers constructed on one host in one run (the host outlives a manager)
MaxSetups == 2

\* line 61: `ip link show ch-tap0` returns 0 exactly when the device exists,
\* here with the device never found
DeviceFound_Never(h) == FALSE

\* lines 59-61: result.returncode == 0
DeviceFound(h) == h.device

\* lines 91-93 without the except clause: the exception leaves
\* setup_network and __init__
Warned_Raised == [setup EXCEPT !.pc = "raised"]

\* lines 91-93: the except clause prints the warning and setup_network
\* returns normally
Warned == [setup EXCEPT !.pc = "done", !.printed = "warning"]

\* the statement after a command of the provisioning branch (the command's
\* label names the state before it)
AfterCommand(label) ==
    CASE label = "tuntap" -> "addr"
      [] label = "addr" -> "up"
      [] label = "up" -> "sysctl"
      [] label = "sysctl" -> "route"
      [] label = NetRules[1] -> NetRules[2]
      [] label = NetRules[2] -> NetRules[3]
      [] label = NetRules[3] -> "complete"

\* hypervisor processes left on the host by an earlier run of the service
\* when the first manager is constructed
MaxStale == 1

\* the states of cleanup_existing_vms: before pgrep, inside the loop over
\* the pids, before time.sleep(3)
CleanupLabels == {"pgrep", "kill", "sleep"}

\* lines 46-49 without the wait: the loop is left for setup_network at once
AfterKills_NoWait(cleaned_count) == "probe"

\* lines 46-49 and 26: after the loop, time.sleep(3) when a kill succeeded,
\* else cleanup_existing_vms returns and setup_network is called
AfterKills(cleaned_count) == IF cleaned_count > 0 THEN "sleep" ELSE "probe"

\* lines 32-35 and 50-53: pgrep -f returns 0 exactly when a process
\* matches, and its output is split into the pids; with no match the
\* function returns; an exception (pgrep missing) is swallowed by the
\* except of line 52 and the function returns as well
CleanupPgrep ==
    /\ setup.pc = "pgrep"
    /\ \E started \in BOOLEAN :
          setup' = IF started /\ setup.stale > 0
                   THEN [setup EXCEPT !.pc = "kill", !.pids = setup.stale]
                   ELSE [setup EXCEPT !.pc = "probe"]

\* lines 37-44: one round of the loop.  `kill pid` with check=True: the
\* signal is sent and the process ends and cleaned_count grows, or kill
\* fails (the pid is gone, or not ours) and the bare except passes
CleanupKill ==
    /\ setup.pc = "kill"
    /\ \E ok \in BOOLEAN :
          LET count == setup.cleaned_count + (IF ok THEN 1 ELSE 0)
              left == setup.pids - 1
          IN  setup' = [setup EXCEPT
                           !.cleaned_count = count,
                           !.stale = IF ok THEN @ - 1 ELSE @,
                           !.pids = left,
                           !.pc = IF left > 0 THEN "kill"
                                  ELSE AfterKills(count)]

\* line 49: time.sleep(3), then the function returns
CleanupSleep ==
    /\ setup.pc = "sleep"
    /\ setup' = [setup EXCEPT !.pc = "probe", !.slept = TRUE]

\* line 25 and lines 28-53: cleanup_existing_vms touches no interface and
\* nothing the manager holds
CleanupExistingVms ==
    /\ CleanupPgrep \/ CleanupKill \/ CleanupSleep
    /\ UNCHANGED <<manager, os, pc, loc, ret, history, faults, host>>

\* the sessions, the calls being served and the record of calls are not
\* touched by setup_network
SetupFrame == UNCHANGED <<manager, os, pc, loc, ret, history, faults>>

\* lines 59-62 and 89-90: the probe (run without check=True); its return
\* code selects the branch
NetProbe ==
    /\ setup.pc = "probe"
    /\ setup' = IF DeviceFound(host)
                THEN [setup EXCEPT !.pc = "done", !.found = TRUE,
                                   !.printed = "already"]
                ELSE [setup EXCEPT !.pc = "tuntap"]
    /\ host' = host
    /\ SetupFrame

\* subprocess.run(..., check=True): the command takes effect, or it fails
\* without effect and CalledProcessError reaches the except of line 91
NetCommand(label, effect) ==
    /\ setup.pc = label
    /\ \E ok \in BOOLEAN :
          IF ok THEN /\ host' = effect
                     /\ setup' = [setup EXCEPT !.pc = AfterCommand(label)]
          ELSE /\ host' = host
               /\ setup' = Warned
    /\ SetupFrame

\* lines 65-66
NetTuntap == NetCommand("tuntap", TuntapAdd(host))

\* lines 69-70
NetAddr == NetCommand("addr", AddrAdd(host))

\* lines 71-72
NetUp == NetCommand("up", LinkUp(host))

\* lines 75-76
NetSysctl == NetCommand("sysctl", Forwarding(host))

\* lines 79-80 and 95-110: get_default_interface returns the interface of the
\* default route, or None (also when `ip route` fails: its except passes)
NetRoute ==
    /\ setup.pc = "route"
    /\ \E iface \in BOOLEAN :
          setup' = [setup EXCEPT !.iface = iface,
                                 !.pc = IF iface THEN NetRules[1]
                                        ELSE "complete"]
    /\ host' = host
    /\ SetupFrame

\* lines 81-86
NetRule(i) == NetCommand(NetRules[i], RuleAppend(host, NetRules[i]))

\* line 88
NetComplete ==
    /\ setup.pc = "complete"
    /\ setup' = [setup EXCEPT !.pc = "done", !.printed = "complete"]
    /\ host' = host
    /\ SetupFrame

SetupNetwork ==
    \/ NetProbe
    \/ NetTuntap
    \/ NetAddr
    \/ NetUp
    \/ NetSysctl
    \/ NetRoute
    \/ \E i \in DOMAIN NetRules : NetRule(i)
    \/ NetComplete

\* lines 556 and 21-26: the service is started again on the same host and a
\* new manager constructed: empty registry, counter 0, none of the earlier
\* manager's handles or descriptors; what is on the host and on disk stays
\* (the hypervisors the earlier manager left running were started with
\* os.setsid, line 168: they outlive it and are stale for the new one)
Construct ==
    /\ setup.pc = "done"
    /\ setup.runs < MaxSetups
    /\ setup' = Entering(setup.runs + 1,
                         setup.stale
                            + Cardinality({p \in DOMAIN procs :
                                              procs[p] = "running"}))
    /\ terminal_counter' = 0
    /\ user_terminals' = EmptyMap
    /\ user_order' = <<>>
    /\ procs' = <<>>
    /\ fds' = EmptyMap
    /\ pc' = [t \in Threads |-> "idle"]
    /\ loc' = [t \in Threads |-> IdleLoc]
    /\ ret' = NoRet
    /\ issued' = <<>>
    /\ created' = {}
    /\ closed' = {}
    /\ outputs' = EmptyMap
    /\ console' = EmptyMap
    /\ UNCHANGED <<dirs, uuids, faults, host>>

\* the first manager is constructed on a host where nothing is set up
InitNet ==
    /\ terminal_counter = 0
    /\ user_terminals = EmptyMap
    /\ user_order = <<>>
    /\ procs = <<>>
    /\ fds = EmptyMap
    /\ dirs = {}
    /\ uuids = 0
    /\ pc = [t \in Threads |-> "idle"]
    /\ loc = [t \in Threads |-> IdleLoc]
    /\ ret = NoRet
    /\ issued = <<>>
    /\ created = {}
    /\ closed = {}
    /\ outputs = EmptyMap
    /\ console = EmptyMap
    /\ faults = 0
    /\ host = Pristine
    /\ \E stale \in 0..MaxStale : setup = Entering(1, stale)

\* one owner and one create call for each manager, calls without user_id
\* on the first id, no failing file operation, consoles that stay silent
NetEnv ==
    [made |-> {TRUE}, removed |-> {TRUE}, pty |-> {"pty"},
     failed |-> {"health", "none"}, users |-> {"alice"},
     callers |-> {NoUser}, ids |-> {TerminalId(0)}, chunks |-> 0,
     positions |-> {}, commands |-> Commands, writes |-> 0,
     texts |-> {<<>>},
     recipes |-> {EmptyMap}, drawn |-> {<<0, 0, 0>>}, creates |-> 1]

\* calls are served once the manager is constructed (line 556 precedes the
\* registration of the service)
Serve == setup.pc = "done" /\ (Handler(MainThread, NetEnv) \/ Environment)

NextNet == CleanupExistingVms \/ SetupNetwork \/ Serve \/ Construct

SpecNet == InitNet /\ [][NextNet]_vars

\* =================================================================== claims
\* what the claims speak of, stated without the lookup code
\* the ids stored in the registry, with their owners
Stored ==
    UNION {{<<u, tid>> : tid \in DOMAIN user_terminals[u]} :
              u \in DOMAIN user_terminals}

\* terminal_id is in the registry for a caller: under that owner, or under
\* any owner when the caller names none
InRegistry(terminal_id, user_id) ==
    \E x \in Stored : x[2] = terminal_id /\ (user_id # NoUser => x[1] = user_id)

\* the session with this uuid is still an entry of the registry
SessionStored(uuid) ==
    \E x \in Stored : user_terminals[x[1]][x[2]].session_uuid = uuid

ClosedIds == {c.terminal_id : c \in closed}

\* C1: after close(id) has returned for an existing session, read, write,
\* resize, getStatus and getScreenContent on that id return NotFound for
\* every caller, whatever was called in between
C1_ClosedIdIsNotFound ==
    \A terminal_id \in ClosedIds, user_id \in Callers :
        /\ ReadResult(terminal_id, user_id) = "not_found"
        /\ WriteResult(terminal_id, user_id) = "not_found"
        /\ \A rows \in Sizes, cols \in Sizes :
              ResizeResult(terminal_id, rows, cols, user_id) = "not_found"
        /\ StatusResult(terminal_id, user_id) = "not_found"
        /\ ScreenResult(terminal_id, user_id) = "not_found"

\* a session was closed, a further create has registered another one since,
\* and the manager is ready to take a read on the closed id
C1_Witness ==
    /\ pc[MainThread] = "idle"
    /\ ret = NoRet
    /\ \E c \in closed, d \in created :
          /\ d.uuid > c.uuid
          /\ SessionStored(d.uuid)
          /\ ReadResult(c.terminal_id, NoUser) = "not_found"

\* C2: when close returns for a session it resolved, the session's entry is
\* not in the registry, whether or not a cleanup step failed
C2_ClosedSessionRemoved ==
    (ret.op = "close" /\ ret.result = "ok")
        => ~SessionStored(ret.info.term[1].session_uuid)

\* close returns although shutil.rmtree failed
C2_Witness ==
    /\ ret.op = "close"
    /\ ret.result = "ok"
    /\ ret.info.rmfail
    /\ ret.info.term[1].work_dir \in dirs

\* C3 (fails): when close returns for a session it resolved, the session's
\* PTY descriptors are closed and its work directory is deleted, also when
\* signalling the process group failed
C3_CloseReleasesResources ==
    (ret.op = "close" /\ ret.result = "ok")
        => LET term == ret.info.term[1] IN
           /\ \A n \in DOMAIN fds : fds[n].uuid # term.session_uuid
           /\ term.work_dir \notin dirs

\* C4: close on an id that is not in the registry for the caller returns
\* NotFound and changes neither the manager's state nor any process,
\* descriptor or directory; a close that goes on to clean up was given an id
\* that is in the registry for the caller
C4_CloseNotFoundChangesNothing ==
    [][/\ (ret'.op = "close" /\ ret'.result = "not_found")
            => /\ ~InRegistry(ret'.terminal_id, ret'.user_id)
               /\ UNCHANGED <<manager, os>>
       /\ (pc[MainThread] = "idle" /\ loc'[MainThread].op = "close")
            => InRegistry(loc'[MainThread].terminal_id,
                          loc'[MainThread].user_id)
      ]_vars

\* close has answered NotFound for an id that is stored, under another owner
\* than the one given
C4_Witness ==
    /\ ret.op = "close"
    /\ ret.result = "not_found"
    /\ InRegistry(ret.terminal_id, NoUser)
    /\ ~InRegistry(ret.terminal_id, ret.user_id)

\* C5 (fails): a create that fails at a step after the work directory was
\* made returns a failure result, with the work directory removed and the
\* registry as it was before the call
C5_FailedCreateCleansUp ==
    (ret.op = "create" /\ ret.info.failed \in FailSteps)
        => /\ ret.result = "error"
           /\ ret.info.uuid \notin dirs
           /\ user_terminals = ret.info.reg0

\* C6 (fails): when a failed create returns, the descriptors it allocated
\* are closed and no process it launched is running
C6_FailedCreateLeaksNothing ==
    (ret.op = "create" /\ ret.result = "error")
        => /\ \A n \in DOMAIN fds : fds[n].uuid # ret.info.uuid
           /\ ret.info.pid # 0 => procs[ret.info.pid] # "running"

\* C7 (fails): no two create calls are assigned the same session identifier,
\* however the calls interleave
C7_ConcurrentIdsDistinct ==
    \A i \in DOMAIN issued, j \in DOMAIN issued :
        i # j => issued[i] # issued[j]

\* C8: under sequential calls the n-th create call (n = 0, 1, ...) is
\* assigned terminal_n, a create that succeeds returns the id it was
\* assigned, and the counter has advanced once for every create call that
\* got past the increment, failed ones included
C8_SequentialIds ==
    /\ \A i \in DOMAIN issued : issued[i] = <<"terminal_", i - 1>>
    /\ pc[MainThread] \notin {"create_incr"} => terminal_counter = Len(issued)
    /\ (ret.op = "create" /\ ret.result = "ok")
          => ret.terminal_id = <<"terminal_", Len(issued) - 1>>

\* the first create failed and the second has returned terminal_1
C8_Witness ==
    /\ ret.op = "create"
    /\ ret.result = "ok"
    /\ ret.terminal_id = <<"terminal_", 1>>
    /\ Cardinality(created) = 1

\* C9: an id is issued once; a closed session's id does not resolve again
\* and its session is not stored again; an id is stored under at most one
\* owner
C9_NoResurrection ==
    /\ Cardinality({issued[i] : i \in DOMAIN issued}) = Len(issued)
    /\ \A c \in closed :
          /\ ~InRegistry(c.terminal_id, NoUser)
          /\ ~SessionStored(c.uuid)
    /\ \A x \in Stored, y \in Stored : x[2] = y[2] => x[1] = y[1]

\* a session was closed, and the create that has just returned stored its
\* session under another id
C9_Witness ==
    /\ ret.op = "create"
    /\ ret.result = "ok"
    /\ closed # {}
    /\ ret.terminal_id \notin ClosedIds
    /\ InRegistry(ret.terminal_id, ret.user_id)

\* the ids list_terminals returns to a caller
ListedIds(user_id) == {entry.id : entry \in ListResult(user_id)}

\* the ids of the sessions created under an owner (under any owner for a
\* caller that names none) and not closed since
OpenIds(user_id) ==
    {c.terminal_id :
        c \in {c \in created :
                  /\ user_id # NoUser => c.user_id = user_id
                  /\ [terminal_id |-> c.terminal_id, uuid |-> c.uuid]
                        \notin closed}}

\* C10: list(owner) returns exactly the ids of the sessions created under
\* that owner and not yet closed, list() those of all owners
C10_ListIsExact ==
    \A user_id \in Callers : ListedIds(user_id) = OpenIds(user_id)

\* two owners hold a session each, so the scoped lists differ from the
\* global one
C10_Witness ==
    /\ pc[MainThread] = "idle"
    /\ ListedIds("alice") # {}
    /\ ListedIds("bob") # {}
    /\ ListedIds("alice") \cap ListedIds("bob") = {}
    /\ ListedIds(NoUser) = ListedIds("alice") \cup ListedIds("bob")

\* the ids stored under another owner than x
ForeignIds(x) == {s[2] : s \in {s \in Stored : s[1] # x}}

\* every one-step handler and close answer NotFound to owner x for the id
AllNotFound(terminal_id, x) ==
    /\ WriteResult(terminal_id, x) = "not_found"
    /\ WriteDelivered(terminal_id, x) = "none"
    /\ ReadResult(terminal_id, x) = "not_found"
    /\ \A rows \in Sizes, cols \in Sizes :
          ResizeResult(terminal_id, rows, cols, x) = "not_found"
    /\ StatusResult(terminal_id, x) = "not_found"
    /\ ScreenResult(terminal_id, x) = "not_found"
    /\ FindTerminal(terminal_id, x) = <<>>

\* a step of write, read, resize, close, getStatus or getScreenContent called
\* by x on the id
CallOn(terminal_id, x) ==
    \/ \E command \in Commands :
          WriteToTerminal(MainThread, AnyEnv, terminal_id, command, x)
    \/ ReadFromTerminal(MainThread, AnyEnv, terminal_id, x)
    \/ \E rows \in Sizes, cols \in Sizes :
          ResizeTerminal(MainThread, terminal_id, rows, cols, x)
    \/ GetTerminalStatus(MainThread, terminal_id, x)
    \/ GetScreenContent(MainThread, terminal_id, x)
    \/ CloseBegin(MainThread, terminal_id, x)

\* C11: per-user isolation -- for an owner x and an id stored under another
\* owner, write, read, resize, close, getStatus and getScreenContent called
\* by x return NotFound, and the call changes nothing of the manager, the
\* processes, the descriptors or the directories
C11_PerUserIsolation ==
    [][/\ \A x \in Users : \A terminal_id \in ForeignIds(x) :
             /\ AllNotFound(terminal_id, x)
             /\ CallOn(terminal_id, x)
                   => /\ UNCHANGED <<manager, os, outputs>>
                      /\ pc'[MainThread] = "idle"
                      /\ ret' # NoRet => ret'.result = "not_found"
       /\ \A x \in Users : \A terminal_id \in ForeignIds(x)' :
             AllNotFound(terminal_id, x)'
      ]_vars

\* bob's close on the id of alice's running session has answered NotFound,
\* his read on it answers NotFound too, and the session is still served to
\* alice
C11_Witness ==
    /\ ret.op = "close"
    /\ ret.result = "not_found"
    /\ ret.user_id = "bob"
    /\ ret.terminal_id \in ForeignIds("bob")
    /\ ReadResult(ret.terminal_id, "bob") = "not_found"
    /\ ReadResult(ret.terminal_id, "alice") = "ok"

\* the stored sessions whose process has exited, as <<owner, id>>
StoppedSessions ==
    {x \in Stored :
        procs[user_terminals[x[1]][x[2]].process] \in {"zombie", "reaped"}}

\* C12: write on a stored session whose process has exited returns
\* ProcessStopped, to its owner and to a caller that names no owner, and
\* delivers no bytes to the PTY master or to the process's standard input
C12_WriteToStoppedSession ==
    \A x \in StoppedSessions : \A user_id \in {x[1], NoUser} :
        /\ WriteResult(x[2], user_id) = "stopped"
        /\ WriteDelivered(x[2], user_id) = "none"

\* a stored session's hypervisor has exited and nobody has polled it yet;
\* the manager is ready to take the write
C12_Witness ==
    /\ pc[MainThread] = "idle"
    /\ ret = NoRet
    /\ \E x \in StoppedSessions :
          /\ procs[user_terminals[x[1]][x[2]].process] = "zombie"
          /\ user_terminals[x[1]][x[2]].pty_master \in DOMAIN fds
          /\ WriteResult(x[2], x[1]) = "stopped"

\* the screen buffer of a stored session
BufferOf(x) == user_terminals[x[1]][x[2]].screen_buffer

\* C13: when a stored session's process has exited, a read on it returns
\* the ProcessStopped failure whatever the descriptor holds (it returns
\* before select and os.read), and the read leaves the screen buffers, the
\* record of outputs and the descriptors as they were
C13_ReadAfterExit ==
    [][/\ \A x \in StoppedSessions : \A user_id \in {x[1], NoUser} :
             /\ ReadResult(x[2], user_id) = "stopped"
             /\ \A got \in ReadCases :
                   ReadStep(MainThread, AnyEnv, x[2], user_id, got)
                      => UNCHANGED <<user_terminals, outputs, fds>>
       /\ \A x \in StoppedSessions' : \A user_id \in {x[1], NoUser} :
             ReadResult(x[2], user_id)' = "stopped"
      ]_vars

\* a read has returned a chunk of the session's console, then the hypervisor
\* exited; the manager is ready to take the next read
C13_Witness ==
    /\ pc[MainThread] = "idle"
    /\ ret = NoRet
    /\ \E x \in StoppedSessions :
          /\ BufferOf(x) # <<>>
          /\ procs[user_terminals[x[1]][x[2]].process] = "zombie"
          /\ ReadResult(x[2], x[1]) = "stopped"

\* the stored sessions whose process is running, as <<owner, id>>
RunningSessions ==
    {x \in Stored : procs[user_terminals[x[1]][x[2]].process] = "running"}

\* C14: while a stored session's process is alive a read on it returns
\* success; when nothing is ready within the wait, when zero bytes are read
\* and when os.read raises OSError the output is empty and the read leaves
\* the screen buffers and the record of outputs unchanged
C14_ReadWhileAlive ==
    [][/\ \A x \in RunningSessions : \A user_id \in {x[1], NoUser} :
             /\ ReadResult(x[2], user_id) = "ok"
             /\ \A got \in {"not_ready", "zero_bytes", "os_error"} :
                   /\ ReadOutput(x[2], user_id, got) = <<>>
                   /\ ReadStep(MainThread, AnyEnv, x[2], user_id, got)
                         => UNCHANGED <<user_terminals, outputs>>
       /\ \A x \in RunningSessions' : \A user_id \in {x[1], NoUser} :
             ReadResult(x[2], user_id)' = "ok"
      ]_vars

\* a running session whose PTY was recorded and is open, and one whose PTY
\* allocation failed so that reads go to the process's stdout
C14_Witness ==
    /\ pc[MainThread] = "idle"
    /\ ret = NoRet
    /\ \E x \in RunningSessions, y \in RunningSessions :
          /\ user_terminals[x[1]][x[2]].pty_master \in DOMAIN fds
          /\ user_terminals[y[1]][y[2]].pty_master = NoFd
          /\ ReadResult(x[2], x[1]) = "ok"
          /\ ReadResult(y[2], y[1]) = "ok"

\* the console outputs returned so far by the reads of a stored session
OutputsOf(x) == outputs[user_terminals[x[1]][x[2]].session_uuid]

\* a step of write, resize, list, getStatus or getScreenContent
OtherCall ==
    \/ \E terminal_id \in TerminalIds, user_id \in Callers :
          \/ \E command \in Commands :
                WriteToTerminal(MainThread, BufferEnv, terminal_id, command,
                                user_id)
          \/ \E rows \in Sizes, cols \in Sizes :
                ResizeTerminal(MainThread, terminal_id, rows, cols, user_id)
          \/ GetTerminalStatus(MainThread, terminal_id, user_id)
          \/ GetScreenContent(MainThread, terminal_id, user_id)
    \/ \E user_id \in Callers : ListTerminalsCall(MainThread, user_id)

\* C15: a read that returns a non-empty output leaves the session's screen
\* buffer with that output as its last entry, behind the entries it held
\* (all of them, or all but the first when the buffer was full), and leaves
\* the other sessions' buffers alone; a step of write, resize, list,
\* getStatus or getScreenContent leaves every buffer as it was
C15_ReadsAppendToBuffer ==
    [][/\ \A x \in Stored : \A user_id \in {x[1], NoUser} :
             \A got \in ReadCases :
                LET output == ReadOutput(x[2], user_id, got)
                    before == BufferOf(x)
                IN
                (/\ ReadResult(x[2], user_id) = "ok"
                 /\ output # <<>>
                 /\ ReadStep(MainThread, BufferEnv, x[2], user_id, got))
                   => /\ Stored' = Stored
                      /\ BufferOf(x)' # <<>>
                      /\ BufferOf(x)'[Len(BufferOf(x)')] = output
                      /\ SubSeq(BufferOf(x)', 1, Len(BufferOf(x)') - 1)
                            = IF Len(before) < ScreenBufferCap THEN before
                              ELSE Tail(before)
                      /\ \A y \in Stored \ {x} : BufferOf(y)' = BufferOf(y)
       /\ OtherCall => user_terminals' = user_terminals
      ]_vars

\* a read has just filled the long session's buffer to its cap, and a second
\* session is stored whose buffer is still empty
C15_Witness ==
    /\ pc[MainThread] = "idle"
    /\ \E x \in Stored, y \in Stored :
          /\ Len(OutputsOf(x)) = ScreenBufferCap
          /\ BufferOf(x)[ScreenBufferCap] = Chunk(ScreenBufferCap)
          /\ BufferOf(y) = <<>>

\* the last m entries of a sequence, in their order
Latest(seq, m) == [i \in 1..m |-> seq[Len(seq) - m + i]]

\* C16: a stored session's screen buffer never holds more than 1000 entries,
\* and after n reads of the session have returned a non-empty output it is
\* the sequence of the latest min(n, 1000) of those outputs, oldest first
C16_BufferHoldsLatestChunks ==
    \A x \in Stored :
        LET n == Len(OutputsOf(x))
            m == IF n < ScreenBufferCap THEN n ELSE ScreenBufferCap
        IN  /\ Len(BufferOf(x)) <= ScreenBufferCap
            /\ BufferOf(x) = Latest(OutputsOf(x), m)

\* the long session's reads have returned two chunks more than the buffer
\* takes, so its two oldest chunks are gone
C16_Witness ==
    \E x \in Stored :
        /\ Len(OutputsOf(x)) = ScreenBufferCap + 2
        /\ BufferOf(x)[1] = Chunk(3)
        /\ BufferOf(x)[ScreenBufferCap] = Chunk(ScreenBufferCap + 2)

\* the characters of a sequence of one-character chunks, chunk after chunk
Characters(chunks) == [i \in 1..Len(chunks) |-> chunks[i][1]]

\* C17: for a stored session, whether its process runs or has exited,
\* getScreenContent succeeds for the owner and for a caller that names no
\* owner (who is served the same session), and the content is the chunks of
\* the screen buffer one after the other in buffer order; while the
\* session's reads have returned at most 1000 non-empty outputs that is all
\* of those outputs in the order returned
C17_ScreenContentIsBufferInOrder ==
    \A x \in Stored :
        /\ \A user_id \in {x[1], NoUser} :
              /\ ScreenResult(x[2], user_id) = "ok"
              /\ FindTerminal(x[2], user_id) = FindTerminal(x[2], x[1])
        /\ ScreenContent(x[2], x[1]) = Characters(BufferOf(x))
        /\ Len(OutputsOf(x)) <= ScreenBufferCap
              => Characters(BufferOf(x)) = Characters(OutputsOf(x))

\* the hypervisor of the long session has exited after its reads returned
\* exactly as many chunks as the buffer takes; the session is still stored
\* and its content is served whole
C17_Witness ==
    \E x \in StoppedSessions :
        /\ Len(OutputsOf(x)) = ScreenBufferCap
        /\ ScreenResult(x[2], x[1]) = "ok"
        /\ Len(ScreenContent(x[2], x[1])) = ScreenBufferCap
        /\ ScreenContent(x[2], x[1])[ScreenBufferCap] = ScreenBufferCap

\* C18: for a stored session, whether its process runs or has exited, and
\* for every rows and cols, resize returns success to the owner and to a
\* caller that names no owner, and no resize step that can be taken changes
\* the registry, the counter, the processes, the descriptors, the
\* directories or the screen buffers
C18_ResizeOnlyAcknowledges ==
    \A x \in Stored : \A user_id \in {x[1], NoUser} :
        \A rows \in Sizes, cols \in Sizes :
            /\ ResizeResult(x[2], rows, cols, user_id) = "ok"
            /\ ~ ENABLED (/\ ResizeTerminal(MainThread, x[2], rows, cols, user_id)
                          /\ <<manager, os, outputs>>' # <<manager, os, outputs>>)

\* the manager is ready to take a resize on a stored session whose
\* hypervisor has exited and on one whose hypervisor runs
C18_Witness ==
    /\ StoppedSessions # {}
    /\ RunningSessions # {}
    /\ \A x \in Stored :
          /\ ENABLED ResizeTerminal(MainThread, x[2], 24, -1, x[1])
          /\ ResizeResult(x[2], 24, -1, x[1]) = "ok"

\* a create has returned success and the result is on its way to the caller
CreateSucceeded == ret.op = "create" /\ ret.result = "ok"

\* C19 as stated: a getStatus on the returned id right after a successful
\* create reports running = true and the pid of the process that create
\* launched
C19_StatusRunningAfterCreate ==
    CreateSucceeded =>
        \A user_id \in {ret.user_id, NoUser} :
            /\ StatusResult(ret.terminal_id, user_id) = "ok"
            /\ StatusOf(ret.terminal_id, user_id).running
            /\ StatusOf(ret.terminal_id, user_id).pid = ret.info.pid

\* C19, amended: a getStatus on the returned id right after a successful
\* create succeeds and reports the pid of the process that create launched;
\* that process was running at the health check (no poll has seen it
\* exited), and running is true unless the process has exited since.  A
\* create whose process had exited at the health check does not store a
\* session
C19_StatusAfterCreate ==
    /\ CreateSucceeded =>
          \A user_id \in {ret.user_id, NoUser} :
              /\ StatusResult(ret.terminal_id, user_id) = "ok"
              /\ StatusOf(ret.terminal_id, user_id).pid = ret.info.pid
              /\ procs[ret.info.pid] \in {"running", "zombie"}
              /\ StatusOf(ret.terminal_id, user_id).running
                    <=> procs[ret.info.pid] # "zombie"
    /\ \A t \in Threads :
          pc[t] = "create_register" => procs[loc[t].pid] # "reaped"

\* bob's create has returned success after alice's, and the hypervisor it
\* launched runs
C19_Witness ==
    /\ CreateSucceeded
    /\ ret.user_id = "bob"
    /\ ret.terminal_id = TerminalId(1)
    /\ StatusOf(ret.terminal_id, "bob").running
    /\ StatusOf(ret.terminal_id, "bob").pid = ret.info.pid

\* the outcomes that are a result carrying a success flag
Results == {"ok", "error", "not_found", "stopped"}

\* C20 (fails): every call ends by returning a result that carries a
\* success flag -- create and close whatever fails on the way, and write,
\* read, resize, getStatus and getScreenContent on any id for any caller --
\* and no call ends by raising
C20_EveryOutcomeIsAResult ==
    /\ ret # NoRet => ret.result \in Results
    /\ \A terminal_id \in TerminalIds, user_id \in Callers :
          /\ WriteResult(terminal_id, user_id) \in Results
          /\ ReadResult(terminal_id, user_id) \in Results
          /\ StatusResult(terminal_id, user_id) \in Results
          /\ ScreenResult(terminal_id, user_id) \in Results
          /\ \A rows \in Sizes, cols \in Sizes :
                ResizeResult(terminal_id, rows, cols, user_id) \in Results

\* the console descriptors a stored session records that are open
OpenConsole(x) ==
    {user_terminals[x[1]][x[2]].pty_master,
     user_terminals[x[1]][x[2]].pty_slave} \cap DOMAIN fds

\* C21 (fails): any two distinct sessions of the registry have different
\* process handles, and no descriptor number that is open is recorded as
\* PTY master or slave by both
C21_SessionsShareNothing ==
    \A x \in Stored, y \in Stored :
        x # y => /\ user_terminals[x[1]][x[2]].process
                        # user_terminals[y[1]][y[2]].process
                 /\ OpenConsole(x) \cap OpenConsole(y) = {}

\* C22: no step of a session operation (create, write, read, resize, close,
\* list, getStatus, getScreenContent) and no exit of a process changes
\* anything of the host network; a device that exists still exists after
\* every step, also across a new construction of the manager; and no more
\* than one device is ever created
C22_DeviceIsSharedSingleton ==
    [][/\ Serve => host' = host
       /\ host.device => host'.device
       /\ host.created <= 1 /\ host'.created <= 1]_vars

\* the second manager on the host has found the device of the first, and
\* has created and closed a session
C22_Witness ==
    /\ setup.runs = 2
    /\ setup.found
    /\ host.device
    /\ host.created = 1
    /\ closed # {}

\* C23: a setup_network that finds the device changes nothing on the host
\* and ends with "already configured", without a warning; so the host after
\* a second call is the host after the first, and no rule is ever appended
\* twice
C23_SetupIsIdempotent ==
    /\ setup.before.device
          => /\ host = setup.before
             /\ setup.pc \in CleanupLabels \cup {"probe", "done"}
             /\ setup.pc = "done" => setup.printed = "already"
    /\ \A i \in DOMAIN host.rules, j \in DOMAIN host.rules :
          i # j => host.rules[i] # host.rules[j]

\* the second setup_network has returned on a host where the first one
\* created the device and appended the three rules
C23_Witness ==
    /\ setup.runs = 2
    /\ setup.pc = "done"
    /\ setup.before.device
    /\ host.rules = NetRules

\* the states before the commands that setup_network runs with check=True
CommandLabels ==
    {"tuntap", "addr", "up", "sysctl"} \cup {NetRules[i] : i \in DOMAIN NetRules}

\* C24: a command of setup_network that fails ends the call with the
\* warning printed and nothing raised, so the construction completes; the
\* manager then accepts a create, and the create launches a process, whatever
\* was printed; and when no default interface is found no rule is appended
\* while the call ends with "setup complete"
C24_NetworkFailureIsAWarning ==
    /\ setup.pc \in CommandLabels =>
          /\ ENABLED (/\ NetCommand(setup.pc, host)
                      /\ setup'.pc = "done" /\ setup'.printed = "warning")
          /\ ~ ENABLED (/\ NetCommand(setup.pc, host)
                        /\ setup'.pc # AfterCommand(setup.pc)
                        /\ ~(setup'.pc = "done" /\ setup'.printed = "warning"))
    /\ setup.pc \in CleanupLabels \cup CommandLabels
                        \cup {"probe", "route", "complete", "done"}
    /\ setup.pc = "done" =>
          /\ setup.printed \in {"complete", "already", "warning"}
          /\ (pc[MainThread] = "idle" /\ ret = NoRet
                 /\ Len(issued) < MaxCreates)
                => ENABLED CreateBegin(MainThread, EmptyMap, "alice")
          /\ pc[MainThread] = "create_launch"
                => ENABLED (/\ CreateLaunch(MainThread, NetEnv)
                            /\ Len(procs') = Len(procs) + 1)
          /\ (setup.printed = "complete" /\ ~setup.iface)
                => host.rules = <<>>

\* tuntap add failed for the manager that is serving: the warning was
\* printed, there is no device, and a create has launched a process and
\* stored its session
C24_Witness ==
    /\ setup.pc = "done"
    /\ setup.printed = "warning"
    /\ ~host.device
    /\ procs # <<>>
    /\ created # {}

\* C29 (fails): whenever setup_network has found the device and printed
\* "already configured", the device has its address, is up, and forwarding
\* is enabled on the host
C29_AcceptedDeviceIsReady ==
    setup.printed = "already" => host.address /\ host.up /\ host.forward

\* the process of the session that the close on thread t resolved
Closing(t) == loc[t].term[1].process

\* C25: in a close that found its process alive, SIGTERM is sent to the
\* group first and the sleep of one second follows it at once; SIGKILL is
\* sent after that sleep, and exactly when the probe after the sleep still
\* finds the process running; SIGKILL is never sent before SIGTERM, and the
\* descriptors are not closed before the sleep is over
C25_TermThenWaitThenKill ==
    [][LET t == MainThread
           moved == pc'[t] # pc[t]
       IN
       /\ (moved /\ pc'[t] = "close_sigterm")
             => pc[t] = "idle" /\ procs[Closing(t)'] = "running"
       /\ (moved /\ pc[t] = "close_sigterm")
             => /\ pc'[t] = "close_poll"
                /\ loc'[t].sigterm /\ ~loc'[t].sigkill
       /\ (moved /\ pc[t] = "close_poll")
             => /\ pc'[t] = IF procs'[Closing(t)] = "running"
                            THEN "close_sigkill" ELSE "close_fds"
                /\ loc'[t] = loc[t]
       /\ (moved /\ pc[t] = "close_sigkill")
             => pc'[t] = "close_fds" /\ loc'[t].sigkill
       /\ (loc'[t].sigterm /\ ~loc[t].sigterm) => pc[t] = "close_sigterm"
       /\ (loc'[t].sigkill /\ ~loc[t].sigkill)
             => pc[t] = "close_sigkill" /\ loc[t].sigterm
       /\ (moved /\ pc'[t] = "close_fds" /\ pc[t] = "idle")
             => procs[Closing(t)'] # "running"
      ]_vars

\* a close whose process ignored SIGTERM: both signals were sent
C25_Witness ==
    /\ pc[MainThread] = "close_fds"
    /\ loc[MainThread].sigterm
    /\ loc[MainThread].sigkill

\* the sessions whose create returned success and that no close has removed
Unclosed == {c \in created : \A d \in closed : d.uuid # c.uuid}

\* the session a successful create stored is the entry under its id in its
\* owner's map
Resolvable(c) ==
    /\ c.user_id \in DOMAIN user_terminals
    /\ c.terminal_id \in DOMAIN user_terminals[c.user_id]
    /\ user_terminals[c.user_id][c.terminal_id].session_uuid = c.uuid

\* C26 (fails): however create calls interleave, the session of every
\* create that returned success stays resolvable by its id under its owner
\* until it is closed.  It fails even in runs where every create call was
\* given an id of its own (the duplicated ids of C7 are another way to lose
\* an entry, and are left aside here)
C26_NoCreateLosesItsEntry ==
    C7_ConcurrentIdsDistinct => \A c \in Unclosed : Resolvable(c)

\* what a stored session's console has received, and from which writes
ConsoleOf(x) == console[user_terminals[x[1]][x[2]].session_uuid]

\* the encoded data of a sequence of writes, one after the other
Concatenated(sent) == Join([i \in DOMAIN sent |-> Encode(sent[i])])

\* a write by user_id on a stored session that returns success
WriteSucceeds(x, user_id) ==
    /\ WriteResult(x[2], user_id) = "ok"
    /\ FindTerminal(x[2], user_id) = <<user_terminals[x[1]][x[2]]>>

\* C27: the bytes a session's console has received are the encoded data of
\* the writes that returned success, concatenated in the order of the calls;
\* and each write that returns success adds the whole of its data, in one
\* step, behind what the console had received before
C27_ConsoleReceivesWritesInOrder ==
    [][\A x \in Stored :
          /\ ConsoleOf(x).got = Concatenated(ConsoleOf(x).sent)
          /\ \A user_id \in {x[1], NoUser}, command \in Commands :
                (/\ WriteSucceeds(x, user_id)
                 /\ WriteToTerminal(MainThread, WriteEnv, x[2], command,
                                    user_id))
                   => ConsoleOf(x)'.got = ConsoleOf(x).got \o Encode(command)
      ]_vars

\* a console that has received "h" and then the three bytes of "e-acute,
\* newline"
C27_Witness ==
    \E x \in Stored :
        /\ ConsoleOf(x).sent = <<<<104>>, <<233, 10>>>>
        /\ ConsoleOf(x).got = <<104, 195, 169, 10>>

\* where a thread is while it serves a close that resolved its session
CloseLabels ==
    {"close_sigterm", "close_poll", "close_sigkill", "close_fds",
     "close_remove"}

\* the close that MainThread serves has resolved the session uuid
ClosingSession(uuid) ==
    /\ pc[MainThread] \in CloseLabels
    /\ loc[MainThread].term[1].session_uuid = uuid

\* close has returned success for the session uuid, and the session is not
\* in the registry
CloseReturned(uuid) ==
    /\ ret.op = "close"
    /\ ret.result = "ok"
    /\ ret.info.term[1].session_uuid = uuid
    /\ ~SessionStored(uuid)

\* C28: a close that resolved a session returns, whether the process had
\* exited before, exits on SIGTERM or ignores it; when it returns, the
\* session is not in the registry
C28_CloseReturns ==
    \A uuid \in 1..MaxCreates : ClosingSession(uuid) ~> CloseReturned(uuid)

\* a close has returned for a session whose process ignored SIGTERM and was
\* killed
C28_Witness ==
    /\ ret.op = "close"
    /\ ret.info.sigterm
    /\ ret.info.sigkill
    /\ CloseReturned(ret.info.term[1].session_uuid)

\* the message the claim gives for a drained output: the first of the three
\* texts that occurs in it, in the claim's order, decides
FirstMatch(full_output) ==
    IF \E i \in DOMAIN full_output : full_output[i] = "Resource busy"
    THEN "Error booting VM: Network interface is busy. Try again in a few seconds."
    ELSE IF \E i \in DOMAIN full_output : full_output[i] = "TapOpen"
    THEN "Error booting VM: TAP interface error. Network may be in use."
    ELSE IF \E i \in DOMAIN full_output : full_output[i] = "unexpected argument"
    THEN "Error booting VM: Command line argument error. "
    ELSE "Error booting VM: "

\* the message of a create whose health check found the process exited is
\* the one of the first match, and the session is not stored
HealthFailureClassified ==
    /\ ret.info.error.message = FirstMatch(ret.info.full_output)
    /\ ~SessionStored(ret.info.uuid)
    /\ \A c \in created : c.uuid # ret.info.uuid

\* C30 (fails): a create whose health check finds the process exited
\* returns a failure; its message is that of the first match among
\* "Resource busy", "TapOpen", "unexpected argument", else the generic one;
\* and the session is not registered
C30_HealthFailureIsClassified ==
    (ret.op = "create" /\ ret.info.failed = "health")
        => ret.result = "error" /\ HealthFailureClassified

\* a step of list, getStatus or getScreenContent, for any argument
ReadOnlyCall ==
    \/ \E user_id \in Callers : ListTerminalsCall(MainThread, user_id)
    \/ \E terminal_id \in TerminalIds, user_id \in Callers :
          \/ GetTerminalStatus(MainThread, terminal_id, user_id)
          \/ GetScreenContent(MainThread, terminal_id, user_id)

\* C39 as stated (fails): no step of list, getStatus or getScreenContent
\* changes the registry, the id counter, or any process, descriptor or work
\* directory
C39_ReadOnly ==
    ~ ENABLED (ReadOnlyCall /\ <<manager, os>>' # <<manager, os>>)

\* C39: no step of list, getStatus or getScreenContent changes the
\* registry (screen buffers included), the id counter, the descriptors or the
\* work directories, and none changes whether a process is running; the one
\* thing such a step does to a process is to reap it when it has exited
C39_ReadOnlyButReaps ==
    ~ ENABLED (/\ ReadOnlyCall
               /\ \/ <<manager, fds, dirs, uuids, history, faults>>'
                        # <<manager, fds, dirs, uuids, history, faults>>
                  \/ DOMAIN procs' # DOMAIN procs
                  \/ \E p \in DOMAIN procs :
                        /\ procs'[p] # procs[p]
                        /\ ~(procs[p] = "zombie" /\ procs'[p] = "reaped"))

\* a stored session whose process has exited and has not been polled since,
\* with no call being served: list and getStatus find it
C39_Witness ==
    /\ pc[MainThread] = "idle"
    /\ ret = NoRet
    /\ \E x \in Stored :
          /\ procs[user_terminals[x[1]][x[2]].process] = "zombie"
          /\ StatusResult(x[2], x[1]) = "ok"
          /\ ListedIds(x[1]) # {}

\* the session stored under x, and whether its process has exited
SessionOf(x) == user_terminals[x[1]][x[2]]

Exited(x) == procs[SessionOf(x).process] # "running"

\* what list, getStatus and getScreenContent report on the stored session x,
\* asked by its owner or without user_id
Reported(x) ==
    \A user_id \in {x[1], NoUser} :
        /\ [id |-> x[2], status |-> IF Exited(x) THEN "stopped" ELSE "running"]
              \in ListResult(user_id)
        /\ StatusResult(x[2], user_id) = "ok"
        /\ StatusOf(x[2], user_id).running = ~Exited(x)
        /\ ScreenResult(x[2], user_id) = "ok"
        /\ ScreenContent(x[2], user_id) = Join(SessionOf(x).screen_buffer)

\* C35: an entry leaves the registry only in the last step of a close on its
\* id; until then the session, also when its process has exited, is listed
\* (as 'stopped' exactly when the process has exited), is reported by
\* getStatus with running = false exactly then, and getScreenContent
\* returns its screen buffer
C35_OnlyCloseRemoves ==
    [][\A x \in Stored :
          /\ Reported(x)
          /\ x \notin Stored' =>
                /\ pc[MainThread] = "close_remove"
                /\ loc[MainThread].terminal_id = x[2]
          /\ x \in Stored' => SessionOf(x)'.session_uuid = SessionOf(x).session_uuid
      ]_vars

\* a stored session whose process has exited and been reaped by a poll, with
\* console output in its screen buffer
C35_Witness ==
    /\ pc[MainThread] = "idle"
    /\ \E x \in Stored :
          /\ procs[SessionOf(x).process] = "reaped"
          /\ SessionOf(x).screen_buffer # <<>>

\* context["user"]["id"] given as the empty string
EmptyOwner == ""

\* the wrappers pass context["user"]["id"] on as user_id: sessions are
\* created under EmptyOwner and under alice, and the operations are called
\* with either identity or without one
OwnerEnv ==
    [made |-> {TRUE}, removed |-> {TRUE}, pty |-> {"pty"},
     failed |-> {"health", "none"}, users |-> {EmptyOwner, "alice"},
     callers |-> {EmptyOwner, "alice", NoUser}, ids |-> TerminalIds,
     chunks |-> MaxChunks, positions |-> 1..MaxChunks,
     commands |-> {<<104>>}, writes |-> 1, texts |-> {<<>>},
     recipes |-> {EmptyMap}, drawn |-> {<<0, 0, 0>>},
     creates |-> MaxCreates]

NextOwner == Handler(MainThread, OwnerEnv) \/ Environment

SpecOwner == Init /\ [][NextOwner]_vars

\* C40 (fails): no operation called with the empty string as owner resolves,
\* reads, writes or closes a session stored under another owner: its lookup
\* finds nothing, its write leaves the session's console as it is, its read
\* leaves the session's screen buffer as it is, its close returns not found,
\* and its list names no such session
C40_EmptyOwnerIsScoped ==
    \A x \in Stored :
        x[1] # EmptyOwner =>
            /\ FindTerminal(x[2], EmptyOwner) = <<>>
            /\ x[2] \notin ListedIds(EmptyOwner)
            /\ ~ ENABLED (/\ \E command \in OwnerEnv.commands :
                                WriteToTerminal(MainThread, OwnerEnv, x[2],
                                                command, EmptyOwner)
                          /\ console' # console)
            /\ ~ ENABLED (/\ ReadFromTerminal(MainThread, OwnerEnv, x[2],
                                              EmptyOwner)
                          /\ user_terminals' # user_terminals)
            /\ ~ ENABLED (/\ CloseBegin(MainThread, x[2], EmptyOwner)
                          /\ pc'[MainThread] # "idle")

\* C38: cleanup_existing_vms has returned, after time.sleep(3) when it
\* terminated a process, before setup_network does anything; while it runs
\* nothing is provisioned and nothing printed by setup_network; and a
\* hypervisor process is launched only by a manager whose setup_network has
\* returned
C38_StartupOrdering ==
    [][/\ setup.pc \notin CleanupLabels =>
             /\ setup.pids = 0
             /\ setup.cleaned_count > 0 => setup.slept
       /\ setup.pc \in CleanupLabels =>
             /\ host' = host
             /\ setup.printed = "none" /\ setup'.printed = "none"
             /\ ~setup.found /\ ~setup'.found
       /\ host' # host => setup.pc \in CommandLabels
       /\ Len(procs') > Len(procs) =>
             /\ setup.pc = "done"
             /\ setup.printed \in {"complete", "already", "warning"}
      ]_vars

\* a manager whose cleanup terminated a stale process and waited has
\* provisioned the network and launched a hypervisor
C38_Witness ==
    /\ setup.cleaned_count > 0
    /\ setup.slept
    /\ setup.printed = "complete"
    /\ procs # <<>>

\* every recipe, every outcome of the PTY allocation and both ends of the
\* ranges random.randint draws from; one owner, one create call
ConfigEnv ==
    [made |-> {TRUE}, removed |-> {TRUE}, pty |-> PtyOutcomes,
     failed |-> FailSteps \cup {"none"}, users |-> {"alice"},
     callers |-> {NoUser}, ids |-> {TerminalId(0)}, chunks |-> 1,
     positions |-> {1}, commands |-> {<<104>>}, writes |-> 1,
     texts |-> {<<>>}, recipes |-> Recipes, drawn |-> RandomBytes,
     creates |-> 1]

NextConfig == Handler(MainThread, ConfigEnv) \/ Environment

SpecConfig == Init /\ [][NextConfig]_vars

\* the argument vector a create call has built, <<>> before it is built
BuiltCommand == loc[MainThread].ch_cmd

\* C31: the argument vector built for a recipe names the firmware image and
\* has no --cmdline exactly when the recipe's use_firmware is true; otherwise
\* (false or absent) it names the kernel image and the fixed command line
\* with root=/dev/vda1; --cpus and --memory carry the recipe's values, 2 and
\* 512M when the recipe has none
C31_BootSourceFollowsRecipe ==
    BuiltCommand # <<>> =>
        LET recipe == loc[MainThread].recipe
            firmware == "use_firmware" \in DOMAIN recipe /\ recipe.use_firmware
        IN  /\ firmware =>
                  /\ Option(BuiltCommand, "--kernel") = <<"bin/hypervisor-fw">>
                  /\ Option(BuiltCommand, "--cmdline") = <<>>
            /\ ~firmware =>
                  /\ Option(BuiltCommand, "--kernel") = <<"bin/vmlinux-ch">>
                  /\ Option(BuiltCommand, "--cmdline")
                        = <<"console=ttyS0 root=/dev/vda1 rw">>
            /\ Option(BuiltCommand, "--cpus")
                  = <<"boot=", IF "cpus" \in DOMAIN recipe THEN recipe.cpus
                               ELSE 2>>
            /\ Option(BuiltCommand, "--memory")
                  = <<"size=", IF "memory" \in DOMAIN recipe THEN recipe.memory
                               ELSE "512M">>

\* a command built for a recipe that asks for firmware and names no size,
\* with a process launched from it
C31_Witness ==
    /\ BuiltCommand # <<>>
    /\ loc[MainThread].recipe = ("use_firmware" :> TRUE)
    /\ loc[MainThread].pid > 0

\* C32 (fails): the build of the argument vector has one outcome: from one
\* state, with the same outcome of the PTY allocation, no two builds differ
\* in their argument vector (so not in the MAC address and not in the IP
\* address), and the host id of the IP address lies in 100..149
C32_BuildIsDeterministic ==
    /\ BuiltCommand # <<>> =>
          Option(BuiltCommand, "--net")[3][4] \in 100..149
    /\ \A outcome \in ConfigEnv.pty, d1 \in RandomBytes, d2 \in RandomBytes :
          LET Build(drawn) ==
                 /\ CreateLaunch(MainThread, ConfigEnv)
                 /\ loc'[MainThread].ch_cmd # <<>>
                 /\ (loc'[MainThread].master # NoFd) = (outcome = "pty")
                 /\ Option(loc'[MainThread].ch_cmd, "--net")[2]
                       = MacAddress(drawn)
          IN  (ENABLED Build(d1) /\ ENABLED Build(d2)) => d1 = d2

\* C33: a session is stored with a PTY master exactly when the argument
\* vector of its hypervisor has --serial pty=<path of its PTY slave>, and
\* without one exactly when it has --serial tty; the stored choice never
\* changes while the session is stored; a write that delivers and a read
\* that takes bytes use the PTY master when one is stored and the process's
\* stdin and stdout when none is, so never one channel for writing and the
\* other for reading
C33_ConsoleChannelIsFixed ==
    [][/\ \A x \in Stored :
             LET session == SessionOf(x)
                 w == WriteDelivered(x[2], x[1])
                 r == ReadSource(x[2], x[1])
             IN  /\ session.pty_master # NoFd
                       => w \in {"pty", "none"} /\ r \in {"pty", "none"}
                 /\ session.pty_master = NoFd
                       => w \in {"stdin", "none"} /\ r \in {"stdout", "none"}
                 /\ (w = "none") = (r = "none")
                 /\ x \in Stored' =>
                       /\ SessionOf(x)'.pty_master = session.pty_master
                       /\ SessionOf(x)'.pty_slave = session.pty_slave
       /\ \A x \in Stored' \ Stored :
             LET session == SessionOf(x)'
                 serial == Option(BuiltCommand, "--serial")
             IN  /\ session.pty_master # NoFd
                       => serial = <<"pty=">> \o PtyPath(session.pty_slave)
                 /\ session.pty_master = NoFd => serial = <<"tty">>
      ]_vars

\* a session stored without a PTY has received a write on its stdin, beside
\* nothing else: its hypervisor was started with --serial tty
C33_Witness ==
    \E x \in Stored :
        /\ SessionOf(x).pty_master = NoFd
        /\ console[SessionOf(x).session_uuid].sent # <<>>
        /\ ReadSource(x[2], x[1]) = "stdout"

\* --------------------------------------- the Firecracker variant: create
\* FirecrackerTerminal keeps the same registry and counter; the path a
\* session has on disk is its API socket /tmp/firecracker.sock-<uuid>, kept
\* in dirs under the session's uuid

\* lines 65-72: the terminal_data dict
FcSession(l) ==
    [process |-> l.pid, socket_path |-> l.uuid, session_uuid |-> l.uuid,
     user_id |-> l.user_id, screen_buffer |-> <<>>]

\* lines 24-35: the id is formatted, the counter incremented, the uuid drawn
\* and the socket path and the command built
FcCreateBegin(t, user_id) ==
    /\ pc[t] = "idle"
    /\ Len(issued) < MaxCreates
    /\ issued' = Append(issued, TerminalId(terminal_counter))
    /\ terminal_counter' = NextCounter(terminal_counter)
    /\ uuids' = uuids + 1
    /\ Goto(t, "fc_launch",
            [IdleLoc EXCEPT !.op = "fc_create",
                            !.terminal_id = TerminalId(terminal_counter),
                            !.user_id = user_id,
                            !.uuid = uuids + 1])
    /\ UNCHANGED <<user_terminals, user_order, procs, fds, dirs, created,
                   closed, outputs, console, faults>>

\* lines 39-51: a socket file left at the path is unlinked and the process
\* started with Popen, which raises when ./firecracker cannot be executed
FcLaunch(t) ==
    /\ pc[t] = "fc_launch"
    /\ \E started \in BOOLEAN :
          IF started
          THEN /\ procs' = Append(procs, "running")
               /\ dirs' = dirs \ {loc[t].uuid}
               /\ Goto(t, "fc_socket", [loc[t] EXCEPT !.pid = Len(procs) + 1])
          ELSE /\ procs' = procs
               /\ dirs' = dirs \ {loc[t].uuid}
               /\ Goto(t, "fc_fail", [loc[t] EXCEPT !.failed = "launch"])
    /\ UNCHANGED <<manager, fds, uuids, history, faults>>

\* lines 53-54 and 82-90: time.sleep(2), then up to ten tests of
\* os.path.exists(socket_path), half a second apart.  A process that is
\* running creates its socket in time or not; one that has exited does not
FcSocket(t) ==
    /\ pc[t] = "fc_socket"
    /\ \E appears \in BOOLEAN :
          IF appears /\ Alive(loc[t].pid)
          THEN /\ dirs' = dirs \cup {loc[t].uuid}
               /\ Goto(t, "fc_boot", loc[t])
          ELSE /\ dirs' = dirs
               /\ Goto(t, "fc_fail", [loc[t] EXCEPT !.failed = "socket"])
    /\ UNCHANGED <<manager, procs, fds, uuids, history, faults>>

\* the three requests of _configure_firecracker, in their order
FcRequests == <<"fc_boot", "fc_drive", "fc_start">>

\* lines 92-127: one request sent with curl (subprocess.run without
\* check=True); a return code other than 0 raises
FcRequest(t, i) ==
    /\ pc[t] = FcRequests[i]
    /\ \E returncode \in {0, 7} :
          IF returncode = 0
          THEN Goto(t, IF i < Len(FcRequests) THEN FcRequests[i + 1]
                       ELSE "fc_store", loc[t])
          ELSE Goto(t, "fc_fail", [loc[t] EXCEPT !.failed = FcRequests[i]])
    /\ UNCHANGED <<manager, os, history, faults>>

\* lines 61-74: the user's map is made when it is not there, the entry
\* stored and success returned
FcStore(t) ==
    /\ pc[t] = "fc_store"
    /\ LET reg0 == IF loc[t].user_id \in DOMAIN user_terminals
                   THEN user_terminals
                   ELSE NewMap(user_terminals, loc[t].user_id)
           reg == Store(reg0, loc[t].user_id, loc[t].terminal_id,
                        FcSession(loc[t]))
       IN  /\ user_terminals' = reg
           /\ outputs' = KeptOutputs(reg, Put(outputs, loc[t].uuid, <<>>))
           /\ console' = KeptOutputs(reg, Put(console, loc[t].uuid, NoInput))
    /\ user_order' = IF loc[t].user_id \in DOMAIN user_terminals
                     THEN user_order
                     ELSE Append(user_order, loc[t].user_id)
    /\ created' = created \cup {[user_id |-> loc[t].user_id,
                                 terminal_id |-> loc[t].terminal_id,
                                 uuid |-> loc[t].uuid]}
    /\ Return(t, Ret("fc_create", loc[t].terminal_id, loc[t].user_id, "ok",
                     loc[t]))
    /\ UNCHANGED <<terminal_counter, os, issued, closed, faults>>

\* lines 76-77: the except clause returns the failure result, and does
\* nothing else
FcFail(t) ==
    /\ pc[t] = "fc_fail"
    /\ Return(t, Ret("fc_create", loc[t].terminal_id, loc[t].user_id, "error",
                     loc[t]))
    /\ UNCHANGED <<manager, os, history, faults>>

\* create_terminal of the Firecracker variant, step by step
FcCreateTerminal(t) ==
    \/ \E user_id \in Users : FcCreateBegin(t, user_id)
    \/ FcLaunch(t)
    \/ FcSocket(t)
    \/ \E i \in DOMAIN FcRequests : FcRequest(t, i)
    \/ FcStore(t)
    \/ FcFail(t)

NextFire == FcCreateTerminal(MainThread) \/ Environment

SpecFire == Init /\ [][NextFire]_vars

\* C37 (fails): a create of the Firecracker variant that returns a failure
\* after it has launched a process has terminated that process and removed
\* its socket file; and between calls every running process is the process
\* of a stored session
C37_FailedCreateCleansUp ==
    /\ (ret # NoRet /\ ret.op = "fc_create" /\ ret.result = "error"
           /\ ret.info.pid > 0)
          => /\ ~Alive(ret.info.pid)
             /\ ret.info.uuid \notin dirs
    /\ (ret = NoRet /\ pc[MainThread] = "idle")
          => \A p \in DOMAIN procs :
                Alive(p) => \E x \in Stored : SessionOf(x).process = p

\* ------------------------------------- the loops over the registry's dicts
\* list_terminals and the global branch of _find_terminal run `for` loops
\* over self.user_terminals and over a user's dict.  Other handlers run
\* between two rounds of a loop (the service runs its functions in executor
\* threads, run_in_executor, and nothing locks the dicts), so here these
\* loops are taken round by round.  A dict iterator remembers the size the
\* dict had when the loop began and raises RuntimeError ("dictionary changed
\* size during iteration") on the next round when the size is another

\* iter(d) on a dict of the given size: nothing delivered yet
DictIter(size) == [used |-> size, seen |-> {}]

\* next(it): di_used != ma_used
SizeChanged(it, size) == it.used # size

\* the keys of self.user_terminals the outer loop has still to deliver, in
\* insertion order
OuterLeft(it) == {i \in 1..Len(user_order) : user_order[i] \notin it.seen}

\* lines 496-500 and 512-513: list_terminals up to the start of its loop
ListLoopBegin(t, user_id) ==
    /\ pc[t] = "idle"
    /\ IF Truthy(user_id)
       THEN IF user_id \in DOMAIN user_terminals
            THEN Goto(t, "list_inner",
                      [IdleLoc EXCEPT
                          !.op = "list", !.user_id = user_id,
                          !.inner = <<user_id,
                                      DictIter(Cardinality(
                                         DOMAIN user_terminals[user_id]))>>])
            ELSE Return(t, Ret("list", TerminalId(0), user_id, "ok", IdleLoc))
       ELSE Goto(t, "list_outer",
                 [IdleLoc EXCEPT !.op = "list", !.user_id = user_id,
                                 !.outer = <<DictIter(Len(user_order))>>])
    /\ UNCHANGED <<manager, os, history, faults>>

\* line 513: one round of `for user_terminals in self.user_terminals.values()`
ListOuterNext(t) ==
    /\ pc[t] = "list_outer"
    /\ LET it == loc[t].outer[1] IN
       IF SizeChanged(it, Len(user_order))
       THEN Return(t, Ret("list", TerminalId(0), loc[t].user_id, "raised",
                          loc[t]))
       ELSE IF OuterLeft(it) = {}
       THEN Return(t, Ret("list", TerminalId(0), loc[t].user_id, "ok", loc[t]))
       ELSE LET u == user_order[Min(OuterLeft(it))] IN
            Goto(t, "list_inner",
                 [loc[t] EXCEPT
                     !.outer = <<[it EXCEPT !.seen = @ \cup {u}]>>,
                     !.inner = <<u, DictIter(Cardinality(
                                       DOMAIN user_terminals[u]))>>])
    /\ UNCHANGED <<manager, os, history, faults>>

\* lines 500-506 and 514-520: one round of the loop over a user's dict: the
\* entry is appended with the status poll() gives
ListInnerNext(t) ==
    /\ pc[t] = "list_inner"
    /\ LET u == loc[t].inner[1]
           it == loc[t].inner[2]
           d == user_terminals[u]
           left == DOMAIN d \ it.seen
       IN
       IF SizeChanged(it, Cardinality(DOMAIN d))
       THEN /\ procs' = procs
            /\ Return(t, Ret("list", TerminalId(0), loc[t].user_id, "raised",
                             loc[t]))
       ELSE IF left = {}
       THEN /\ procs' = procs
            /\ IF Truthy(loc[t].user_id)
               THEN Return(t, Ret("list", TerminalId(0), loc[t].user_id, "ok",
                                  loc[t]))
               ELSE Goto(t, "list_outer", loc[t])
       ELSE \E tid \in left :
               /\ procs' = Polled(procs, d[tid].process)
               /\ Goto(t, "list_inner",
                       [loc[t] EXCEPT
                           !.inner = <<u, [it EXCEPT !.seen = @ \cup {tid}]>>,
                           !.terminals = @ \cup
                              {[id |-> tid,
                                status |-> IF Alive(d[tid].process)
                                           THEN "running" ELSE "stopped"]}])
    /\ UNCHANGED <<manager, fds, dirs, uuids, history, faults>>

\* lines 523-524 and 350-357: get_screen_content called without user_id, up
\* to the start of the loop of _find_terminal
ScreenLoopBegin(t, terminal_id) ==
    /\ pc[t] = "idle"
    /\ Goto(t, "find_outer",
            [IdleLoc EXCEPT !.op = "screen", !.terminal_id = terminal_id,
                            !.outer = <<DictIter(Len(user_order))>>])
    /\ UNCHANGED <<manager, os, history, faults>>

\* lines 357-360 and 525-531: one round of the loop of _find_terminal; with
\* the session found the content is joined and returned, with the loop at
\* its end NotFound is returned
ScreenLoopNext(t) ==
    /\ pc[t] = "find_outer"
    /\ LET it == loc[t].outer[1]
           tid == loc[t].terminal_id
       IN
       IF SizeChanged(it, Len(user_order))
       THEN Return(t, Ret("screen", tid, NoUser, "raised", loc[t]))
       ELSE IF OuterLeft(it) = {}
       THEN Return(t, Ret("screen", tid, NoUser, "not_found", loc[t]))
       ELSE LET u == user_order[Min(OuterLeft(it))] IN
            IF tid \in DOMAIN user_terminals[u]
            THEN Return(t, Ret("screen", tid, NoUser, "ok",
                               [loc[t] EXCEPT !.term = <<user_terminals[u][tid]>>]))
            ELSE Goto(t, "find_outer",
                      [loc[t] EXCEPT
                          !.outer = <<[it EXCEPT !.seen = @ \cup {u}]>>])
    /\ UNCHANGED <<manager, os, history, faults>>

\* the calls whose loops are taken round by round
LoopCalls(t) ==
    \/ \E user_id \in Callers : ListLoopBegin(t, user_id)
    \/ ListOuterNext(t)
    \/ ListInnerNext(t)
    \/ \E terminal_id \in {TerminalId(0)} : ScreenLoopBegin(t, terminal_id)
    \/ ScreenLoopNext(t)

\* the thread that creates and closes sessions beside MainThread
OtherThread == CHOOSE t \in Threads : t # MainThread

\* two owners create sessions and close the first id, with nothing failing
LoopEnv ==
    [made |-> {TRUE}, removed |-> {TRUE}, pty |-> {"pty"},
     failed |-> {"none", "health"}, users |-> Users, callers |-> {NoUser},
     ids |-> {TerminalId(0)}, chunks |-> 0, positions |-> {},
     commands |-> {<<104>>}, writes |-> 0, texts |-> {<<>>},
     recipes |-> {EmptyMap}, drawn |-> {<<0, 0, 0>>},
     creates |-> MaxCreates]

NextLoop ==
    \/ LoopCalls(MainThread)
    \/ Handler(OtherThread, LoopEnv)
    \/ Environment

SpecLoop == Init /\ [][NextLoop]_vars

\* C34 (fails): no list and no lookup without user_id ends by raising,
\* whatever the other thread inserts into or deletes from the registry
\* while the loop runs
C34_LoopsNeverRaise ==
    ~(/\ ret # NoRet
      /\ ret.op \in {"list", "screen"}
      /\ ret.result = "raised")

\* -------------------------- read and write between lookup and descriptor
\* read_from_terminal and write_to_terminal look the session up and probe
\* its process, and only then hand the number stored as pty_master to
\* select, os.read or os.write; other threads run in between.  Here the two
\* handlers are taken in these two steps

\* lines 362-370 and 386-394: the lookup and the liveness probe; the dict
\* found stays with the handler
FlightResolve(t, op, terminal_id, user_id) ==
    /\ pc[t] = "idle"
    /\ LET found == FindTerminal(terminal_id, user_id) IN
       IF found = <<>>
       THEN /\ procs' = procs
            /\ Return(t, Ret(op, terminal_id, user_id, "not_found", IdleLoc))
       ELSE /\ procs' = Polled(procs, found[1].process)
            /\ IF Stopped(found)
               THEN Return(t, Ret(op, terminal_id, user_id, "stopped", IdleLoc))
               ELSE Goto(t, "flight_fd",
                         [IdleLoc EXCEPT !.op = op,
                                         !.terminal_id = terminal_id,
                                         !.user_id = user_id,
                                         !.term = found])
    /\ UNCHANGED <<manager, fds, dirs, uuids, history, faults>>

\* the session whose PTY is open under a descriptor number
OwnerOf(fd) == fds[fd].uuid

\* lines 373-375 and 398-410: os.write on, or select and os.read from, the
\* number the dict holds as pty_master.  A number that is not open raises
\* (the handler returns the error); a number that is open names the PTY it
\* was last given to, and the bytes go to or come from that PTY.  uuid
\* keeps the session whose PTY was used
FlightUse(t, E) ==
    /\ pc[t] = "flight_fd"
    /\ \E command \in E.commands :
       LET fd == loc[t].term[1].pty_master
           r(result, uuid) ==
              Ret(loc[t].op, loc[t].terminal_id, loc[t].user_id, result,
                  [loc[t] EXCEPT !.uuid = uuid])
       IN
       IF fd \notin DOMAIN fds
       THEN /\ console' = console
            /\ Return(t, r("error", 0))
       ELSE /\ Return(t, r("ok", OwnerOf(fd)))
            /\ IF /\ loc[t].op = "write"
                  /\ OwnerOf(fd) \in DOMAIN console
                  /\ Len(console[OwnerOf(fd)].sent) < E.writes
               THEN console' = [console EXCEPT
                                   ![OwnerOf(fd)] = Written(@, command)]
               ELSE console' = console
    /\ UNCHANGED <<manager, os, issued, created, closed, outputs, faults>>

\* read and write calls on the first id, without user_id
FlightCalls(t, E) ==
    \/ \E op \in {"read", "write"} :
          FlightResolve(t, op, TerminalId(0), NoUser)
    \/ FlightUse(t, E)

\* sessions with a PTY, created and closed with nothing failing
FlightEnv ==
    [made |-> {TRUE}, removed |-> {TRUE}, pty |-> {"pty"},
     failed |-> {"none", "health"}, users |-> {"alice"}, callers |-> {NoUser},
     ids |-> {TerminalId(0)}, chunks |-> 0, positions |-> {},
     commands |-> {<<104>>}, writes |-> 1, texts |-> {<<>>},
     recipes |-> {EmptyMap}, drawn |-> {<<0, 0, 0>>},
     creates |-> MaxCreates]

NextFlight ==
    \/ FlightCalls(MainThread, FlightEnv)
    \/ Handler(OtherThread, FlightEnv)
    \/ Environment

SpecFlight == Init /\ [][NextFlight]_vars

\* C36 (fails): a read or write that has resolved a session and then uses a
\* descriptor uses a descriptor of that session: never one of another
\* session to which the number was given after a close
C36_NoDataCrossesSessions ==
    (ret # NoRet /\ ret.op \in {"read", "write"} /\ ret.result = "ok"
        /\ ret.info.term # <<>>)
       => ret.info.uuid = ret.info.term[1].session_uuid

====
